---- MODULE Spec2Model ----
(***************************************************************************)
(* PSBananaUXP: the panel's button handlers (main.js) and the image        *)
(* generator (image_generator.js) as state machines.                       *)
(*                                                                         *)
(* Spec      - one call of ImageGenerator.generate, for every provider     *)
(*             family, from the configuration test to its result.          *)
(* SpecPoll  - calls that reach the ComfyUI poll loop, with a host that    *)
(*             may ask to abort; SpecPollFair adds fair scheduling.        *)
(* SpecHost  - the handlers of main.js sharing the isGenerating flag.      *)
(* SpecFn    - the pure helpers (provider classifiers, pixel dimensions,   *)
(*             multipart upload body), each called once on a drawn input.  *)
(* SpecSeq   - consecutive calls to the ComfyUI family: the template file *)
(*             and the module-level templates outlive each call.           *)
(* One action is one run of the code from one await to the next (the UXP   *)
(* panel runs on a single-threaded event loop).                            *)
(***************************************************************************)
EXTENDS Integers, Sequences, FiniteSets, TLC

\* ------------------------------------------------------------------ bounds
\* Number of handler invocations (button clicks) the host model follows.
MaxInvocations == 3

\* ============================================================== host state
VARIABLES
    isGenerating,   \* main.js:20  let isGenerating = false
    hkind,          \* invocation -> which handler was invoked ("none" before the click)
    hpc,            \* invocation -> position of the handler (the await it is suspended at)
    generateCalls,  \* invocation -> number of imageGenerator.generate calls it made
    hdebug          \* invocation -> debug_mode setting read by the handler (main.js:600)

hostVars == <<isGenerating, hkind, hpc, generateCalls, hdebug>>

Invocations == 1..MaxInvocations

HandlerKinds == {"generate", "testImport", "testExport", "ensureGroups", "smartCanvasRatio"}

\* Positions at which a handler sits between setting and clearing the flag.
GuardedPcs == {"saving_prompt", "exporting", "generating", "importing", "logging",
               "ti_token", "ti_modal", "te_modal", "eg_modal"}

\* Positions of handleGenerateImage after it was accepted and before its finally block.
GenerationPcs == {"saving_prompt", "exporting", "generating", "importing", "logging"}

HostInit ==
    /\ isGenerating = FALSE
    /\ hkind = [i \in Invocations |-> "none"]
    /\ hpc = [i \in Invocations |-> "idle"]
    /\ generateCalls = [i \in Invocations |-> 0]
    /\ hdebug = [i \in Invocations |-> FALSE]

\* The busy test every guarded handler starts with: `if (isGenerating) { ...; return; }`.
BusyGuard_Skipped == FALSE

BusyGuard == isGenerating

\* handleGenerateImage, from the click to its first await (settingsManager.set).
\* doc, prompt, provider: whether app.activeDocument, the trimmed prompt and the
\* current provider's apiKey/baseUrl are present; dbg: the debug_mode setting.
handleGenerateImage(i, doc, prompt, provider, dbg) ==
    /\ hpc[i] = "idle"
    /\ hkind' = [hkind EXCEPT ![i] = "generate"]
    /\ IF BusyGuard
         THEN /\ hpc' = [hpc EXCEPT ![i] = "rejected"]
              /\ UNCHANGED <<isGenerating, hdebug>>
         ELSE IF ~doc \/ ~prompt \/ ~provider
           THEN /\ hpc' = [hpc EXCEPT ![i] = "returned"]
                /\ UNCHANGED <<isGenerating, hdebug>>
           ELSE /\ isGenerating' = TRUE
                /\ hdebug' = [hdebug EXCEPT ![i] = dbg]
                /\ hpc' = [hpc EXCEPT ![i] = "saving_prompt"]
    /\ UNCHANGED generateCalls

\* The catch and finally blocks of handleGenerateImage, entered with a raised error:
\* with debug_mode the catch block awaits fileManager.saveLog before finally runs.
GenerateCatch(i) ==
    IF hdebug[i]
      THEN /\ hpc' = [hpc EXCEPT ![i] = "logging"]
           /\ UNCHANGED isGenerating
      ELSE /\ hpc' = [hpc EXCEPT ![i] = "failed"]
           /\ isGenerating' = FALSE

\* await settingsManager.set('latest_prompt', prompt) settles.
GeneratePromptSaved(i, ok) ==
    /\ hpc[i] = "saving_prompt"
    /\ IF ok
         THEN /\ hpc' = [hpc EXCEPT ![i] = "exporting"]
              /\ UNCHANGED isGenerating
         ELSE GenerateCatch(i)
    /\ UNCHANGED <<hkind, generateCalls, hdebug>>

\* The export executeAsModal settles; on success imageGenerator.generate is called.
GenerateExported(i, ok) ==
    /\ hpc[i] = "exporting"
    /\ IF ok
         THEN /\ hpc' = [hpc EXCEPT ![i] = "generating"]
              /\ generateCalls' = [generateCalls EXCEPT ![i] = @ + 1]
              /\ UNCHANGED isGenerating
         ELSE /\ GenerateCatch(i)
              /\ UNCHANGED generateCalls
    /\ UNCHANGED <<hkind, hdebug>>

\* imageGenerator.generate settles: a valid file, an invalid file object, or a raised error.
GenerateReturned(i, res) ==
    /\ hpc[i] = "generating"
    /\ IF res = "file"
         THEN /\ hpc' = [hpc EXCEPT ![i] = "importing"]
              /\ UNCHANGED isGenerating
         ELSE GenerateCatch(i)
    /\ UNCHANGED <<hkind, generateCalls, hdebug>>

\* The import executeAsModal settles; on success the finally block runs at once.
GenerateImported(i, ok) ==
    /\ hpc[i] = "importing"
    /\ IF ok
         THEN /\ hpc' = [hpc EXCEPT ![i] = "completed"]
              /\ isGenerating' = FALSE
         ELSE GenerateCatch(i)
    /\ UNCHANGED <<hkind, generateCalls, hdebug>>

\* await fileManager.saveLog in the catch block settles (its own failure is caught); finally runs.
GenerateLogged(i) ==
    /\ hpc[i] = "logging"
    /\ hpc' = [hpc EXCEPT ![i] = "failed"]
    /\ isGenerating' = FALSE
    /\ UNCHANGED <<hkind, generateCalls, hdebug>>

\* handleTestImport up to its first await (fileManager.getLatestImageToken).
handleTestImport(i) ==
    /\ hpc[i] = "idle"
    /\ hkind' = [hkind EXCEPT ![i] = "testImport"]
    /\ IF BusyGuard
         THEN /\ hpc' = [hpc EXCEPT ![i] = "rejected"]
              /\ UNCHANGED isGenerating
         ELSE /\ isGenerating' = TRUE
              /\ hpc' = [hpc EXCEPT ![i] = "ti_token"]
    /\ UNCHANGED <<generateCalls, hdebug>>

\* handleTestImport whose early return leaves without running a finally block.
TestImportToken_NoFinally(i, res) ==
    /\ hpc[i] = "ti_token"
    /\ IF res = "token"
         THEN /\ hpc' = [hpc EXCEPT ![i] = "ti_modal"]
              /\ UNCHANGED isGenerating
         ELSE /\ hpc' = [hpc EXCEPT ![i] = IF res = "none" THEN "returned" ELSE "failed"]
              /\ isGenerating' = (res = "none")
    /\ UNCHANGED <<hkind, generateCalls, hdebug>>

\* getLatestImageToken settles: a token, no token (early return inside try), or an error.
TestImportToken(i, res) ==
    /\ hpc[i] = "ti_token"
    /\ IF res = "token"
         THEN /\ hpc' = [hpc EXCEPT ![i] = "ti_modal"]
              /\ UNCHANGED isGenerating
         ELSE /\ hpc' = [hpc EXCEPT ![i] = IF res = "none" THEN "returned" ELSE "failed"]
              /\ isGenerating' = FALSE
    /\ UNCHANGED <<hkind, generateCalls, hdebug>>

\* The import executeAsModal of handleTestImport settles; catch and finally have no await.
TestImportDone(i, ok) ==
    /\ hpc[i] = "ti_modal"
    /\ hpc' = [hpc EXCEPT ![i] = IF ok THEN "completed" ELSE "failed"]
    /\ isGenerating' = FALSE
    /\ UNCHANGED <<hkind, generateCalls, hdebug>>

\* handleTestExport up to its only await (executeAsModal).
handleTestExport(i) ==
    /\ hpc[i] = "idle"
    /\ hkind' = [hkind EXCEPT ![i] = "testExport"]
    /\ IF BusyGuard
         THEN /\ hpc' = [hpc EXCEPT ![i] = "rejected"]
              /\ UNCHANGED isGenerating
         ELSE /\ isGenerating' = TRUE
              /\ hpc' = [hpc EXCEPT ![i] = "te_modal"]
    /\ UNCHANGED <<generateCalls, hdebug>>

TestExportDone(i, ok) ==
    /\ hpc[i] = "te_modal"
    /\ hpc' = [hpc EXCEPT ![i] = IF ok THEN "completed" ELSE "failed"]
    /\ isGenerating' = FALSE
    /\ UNCHANGED <<hkind, generateCalls, hdebug>>

\* handleEnsureGroups up to its only await (executeAsModal).
handleEnsureGroups(i, doc) ==
    /\ hpc[i] = "idle"
    /\ hkind' = [hkind EXCEPT ![i] = "ensureGroups"]
    /\ IF BusyGuard
         THEN /\ hpc' = [hpc EXCEPT ![i] = "rejected"]
              /\ UNCHANGED isGenerating
         ELSE IF ~doc
           THEN /\ hpc' = [hpc EXCEPT ![i] = "returned"]
                /\ UNCHANGED isGenerating
           ELSE /\ isGenerating' = TRUE
                /\ hpc' = [hpc EXCEPT ![i] = "eg_modal"]
    /\ UNCHANGED <<generateCalls, hdebug>>

EnsureGroupsDone(i, ok) ==
    /\ hpc[i] = "eg_modal"
    /\ hpc' = [hpc EXCEPT ![i] = IF ok THEN "completed" ELSE "failed"]
    /\ isGenerating' = FALSE
    /\ UNCHANGED <<hkind, generateCalls, hdebug>>

\* handleSmartCanvasRatio: no busy test, it never reads or writes isGenerating.
handleSmartCanvasRatio(i) ==
    /\ hpc[i] = "idle"
    /\ hkind' = [hkind EXCEPT ![i] = "smartCanvasRatio"]
    /\ hpc' = [hpc EXCEPT ![i] = "scr_modal"]
    /\ UNCHANGED <<isGenerating, generateCalls, hdebug>>

SmartCanvasRatioDone(i, ok) ==
    /\ hpc[i] = "scr_modal"
    /\ hpc' = [hpc EXCEPT ![i] = IF ok THEN "completed" ELSE "failed"]
    /\ UNCHANGED <<isGenerating, hkind, generateCalls, hdebug>>


\* ================================================================ strings
\* A JavaScript string is a sequence of tokens (TLA+ strings); "" is <<>>.
\* An optional value is a sequence of length 0 (null/undefined) or 1.
None == <<>>
Some(x) == <<x>>

\* Number -> decimal text, for the numbers template literals interpolate.
NumStr(n) ==
    CASE n = 0 -> "0" [] n = 1 -> "1" [] n = 2 -> "2" [] n = 200 -> "200"
      [] n = 400 -> "400" [] n = 500 -> "500" [] OTHER -> "?"

\* String.prototype.toLowerCase on one token.
ToLower(tok) ==
    CASE tok = "GPTGod" -> "gptgod"
      [] tok = "OpenRouter" -> "openrouter"
      [] tok = "ComfyUI" -> "comfyui"
      [] tok = "Seedream" -> "seedream"
      [] tok = "Gemini" -> "gemini"
      [] tok = "Yunwu" -> "yunwu"
      [] tok = "Local " -> "local "
      [] tok = "SEEDREAM" -> "seedream"
      [] tok = "OPENROUTER.AI" -> "openrouter.ai"
      [] tok = "HTTPS://" -> "https://"
      [] OTHER -> tok

\* The marker substrings a (case-preserved) token contains.
TokenMarkers(tok) ==
    CASE tok = "generativelanguage.googleapis.com" -> {"generativelanguage.googleapis.com"}
      [] tok = "ark.cn-beijing.volces.com" -> {"ark.cn-beijing.volces.com"}
      [] tok = "seedream" -> {"seedream"}
      [] tok = "gptgod" -> {"gptgod"}
      [] tok = "gptgod.online" -> {"gptgod", "gptgod.online"}
      [] tok = "openrouter" -> {"openrouter"}
      [] tok = "openrouter.ai" -> {"openrouter", "openrouter.ai"}
      [] tok = "comfyui" -> {"comfyui"}
      [] tok = ":8188" -> {":8188"}
      [] tok = "4-5" -> {"4-5"}
      [] tok = "4.5" -> {"4.5"}
      [] OTHER -> {}

\* s.includes(marker), case-sensitive.
Includes(s, marker) == \E k \in 1..Len(s) : marker \in TokenMarkers(s[k])

\* s.toLowerCase().includes(marker).
IncludesLower(s, marker) == \E k \in 1..Len(s) : marker \in TokenMarkers(ToLower(s[k]))

\* baseUrl.endsWith("/") ? baseUrl.slice(0, -1) : baseUrl
StripSlash(url) ==
    IF Len(url) > 0 /\ url[Len(url)] = "/" THEN SubSeq(url, 1, Len(url) - 1) ELSE url

\* s.substring(0, n)
Substring0(s, n) == SubSeq(s, 1, IF Len(s) < n THEN Len(s) ELSE n)

\* needle occurs in hay as a contiguous run of tokens.
Contains(hay, needle) ==
    \E k \in 0..(Len(hay) - Len(needle)) : SubSeq(hay, k + 1, k + Len(needle)) = needle

\* ============================================================== providers
ApiKey == <<"KEY-SECRET">>

Profile(name, baseUrl, apiKey, model) ==
    [name |-> name, baseUrl |-> baseUrl, apiKey |-> apiKey, model |-> model]

PGoogle == Profile(<<"Gemini">>, <<"https://", "generativelanguage.googleapis.com", "/v1beta">>,
                   ApiKey, <<"gemini-3-pro-image-preview">>)
PYunwu == Profile(<<"Yunwu">>, <<"https://yunwu.zeabur.app/v1beta">>,
                  ApiKey, <<"gemini-3-pro-image-preview">>)
PGptgod == Profile(<<"GPTGod">>, <<"https://api.", "gptgod.online", "/v1/chat/completions">>,
                   ApiKey, <<"gemini-3-pro-image-preview">>)
POpenRouter == Profile(<<"OpenRouter">>, <<"https://", "openrouter.ai", "/api/v1/chat/completions">>,
                       ApiKey, <<"google/gemini-3.1-flash-image-preview">>)
PSeedream == Profile(<<"Seedream">>, <<"https://", "ark.cn-beijing.volces.com", "/api/v3/images/generations">>,
                     ApiKey, <<"doubao-seedream-", "4-5", "-251128">>)
PComfy == Profile(<<"Local ", "ComfyUI">>, <<"http://127.0.0.1", ":8188", "/">>,
                  ApiKey, <<"z_image_turbo_bf16.safetensors">>)
\* Malformed profiles: empty apiKey, empty baseUrl.
PNoKey == Profile(<<"Yunwu">>, <<"https://yunwu.zeabur.app/v1beta">>, <<>>, <<"m">>)
PNoUrl == Profile(<<"GPTGod">>, <<>>, ApiKey, <<"m">>)

ValidProfiles == {PGoogle, PYunwu, PGptgod, POpenRouter, PSeedream, PComfy}

\* options.provider: null, or a profile.
ProviderOptions == {None} \cup {Some(p) : p \in ValidProfiles \cup {PNoKey, PNoUrl}}

DetectProviderType_ResellerFirst(provider) ==
    LET nameLower == provider.name
        urlLower == provider.baseUrl
    IN  IF IncludesLower(urlLower, "generativelanguage.googleapis.com") THEN "google_official"
        ELSE IF IncludesLower(nameLower, "gptgod") \/ IncludesLower(urlLower, "gptgod") THEN "gptgod"
        ELSE IF IncludesLower(nameLower, "openrouter")
                \/ IncludesLower(urlLower, "openrouter.ai") THEN "openrouter"
        ELSE IF IncludesLower(nameLower, "seedream")
                \/ IncludesLower(urlLower, "ark.cn-beijing.volces.com") THEN "seedream"
        ELSE IF IncludesLower(nameLower, "comfyui") \/ IncludesLower(urlLower, ":8188") THEN "comfyui"
        ELSE "yunwu"

\* _detectProviderType(provider)
DetectProviderType(provider) ==
    LET nameLower == provider.name
        urlLower == provider.baseUrl
    IN  IF IncludesLower(urlLower, "generativelanguage.googleapis.com") THEN "google_official"
        ELSE IF IncludesLower(nameLower, "seedream")
                \/ IncludesLower(urlLower, "ark.cn-beijing.volces.com") THEN "seedream"
        ELSE IF IncludesLower(nameLower, "gptgod") \/ IncludesLower(urlLower, "gptgod") THEN "gptgod"
        ELSE IF IncludesLower(nameLower, "openrouter")
                \/ IncludesLower(urlLower, "openrouter.ai") THEN "openrouter"
        ELSE IF IncludesLower(nameLower, "comfyui") \/ IncludesLower(urlLower, ":8188") THEN "comfyui"
        ELSE "yunwu"

\* (name || "") for a name or baseUrl that may be missing (None).
OrEmpty(x) == IF x = None THEN <<>> ELSE x[1]

\* detectProviderType(name, baseUrl) of the provider table: the same chain of
\* tests as _detectProviderType, on the two strings instead of the profile.
DetectProviderTypeOf_NoCatchAll(name, baseUrl) ==
    LET t == DetectProviderType([name |-> OrEmpty(name), baseUrl |-> OrEmpty(baseUrl)])
    IN  IF t = "yunwu" THEN "unknown" ELSE t

DetectProviderTypeOf(name, baseUrl) ==
    LET nameLower == OrEmpty(name)
        urlLower == OrEmpty(baseUrl)
    IN  IF IncludesLower(urlLower, "generativelanguage.googleapis.com") THEN "google_official"
        ELSE IF IncludesLower(nameLower, "seedream")
                \/ IncludesLower(urlLower, "ark.cn-beijing.volces.com") THEN "seedream"
        ELSE IF IncludesLower(nameLower, "gptgod") \/ IncludesLower(urlLower, "gptgod") THEN "gptgod"
        ELSE IF IncludesLower(nameLower, "openrouter")
                \/ IncludesLower(urlLower, "openrouter.ai") THEN "openrouter"
        ELSE IF IncludesLower(nameLower, "comfyui") \/ IncludesLower(urlLower, ":8188") THEN "comfyui"
        ELSE "yunwu"

\* _buildApiUrl(provider, providerType)
BuildApiUrl(provider, providerType) ==
    LET url == StripSlash(provider.baseUrl)
    IN  IF providerType \in {"google_official", "yunwu"}
          THEN url \o <<"/models/">> \o provider.model \o <<":generateContent?key=">> \o provider.apiKey
        ELSE IF providerType = "comfyui" THEN url \o <<"/prompt">>
        ELSE url

\* _buildHeaders(provider, providerType): the Authorization header value, if any.
BuildHeaders(provider, providerType) ==
    IF providerType \in {"gptgod", "openrouter", "seedream"}
      THEN [ContentType |-> "application/json", Authorization |-> <<"Bearer ">> \o provider.apiKey]
      ELSE [ContentType |-> "application/json", Authorization |-> <<>>]


\* ======================================================== payload builders
\* Images are opaque base64 strings; "" stands for null/undefined (both falsy).
TextPart(t) == [text |-> t]
InlinePart(mime, data) == [inlineData |-> [mimeType |-> mime, data |-> data]]

\* image_generator.js:225-278, the parts array of _buildGooglePayload.
GoogleParts_SourceFirst(prompt, mode, inputImage, sourceImage, referenceImage) ==
    <<TextPart(<<"System Instruction: ">> \o <<"\n\nUser Prompt: ">> \o prompt),
      InlinePart("image/webp", sourceImage), InlinePart("image/webp", referenceImage)>>

GoogleParts(prompt, mode, inputImage, sourceImage, referenceImage) ==
    IF sourceImage # "" \/ referenceImage # ""
      THEN LET nRef == IF referenceImage # "" THEN 1 ELSE 0
               sysRef == IF referenceImage # ""
                           THEN <<"Image ", NumStr(1),
                                  " is the Reference Layer (use this for style/content reference). ">>
                           ELSE <<>>
               sysSrc == IF sourceImage # ""
                           THEN <<"Image ", NumStr(nRef + 1),
                                  " is the Source Layer (the content to be modified). ">>
                           ELSE <<>>
           IN  <<TextPart(<<"System Instruction: ">> \o sysRef \o sysSrc
                          \o <<"\n\nUser Prompt: ">> \o prompt)>>
               \o (IF referenceImage # "" THEN <<InlinePart("image/webp", referenceImage)>> ELSE <<>>)
               \o (IF sourceImage # "" THEN <<InlinePart("image/webp", sourceImage)>> ELSE <<>>)
    ELSE IF mode = "imgedit" /\ inputImage # ""
      THEN <<InlinePart("image/png", inputImage), TextPart(prompt)>>
    ELSE <<TextPart(prompt)>>

\* _buildGooglePayload
BuildGooglePayload(prompt, aspectRatio, resolution, mode, searchWeb, inputImage, sourceImage, referenceImage) ==
    [contents |-> <<[parts |-> GoogleParts(prompt, mode, inputImage, sourceImage, referenceImage)]>>,
     generationConfig |->
        [response_modalities |-> <<"IMAGE">>,
         image_config |-> [aspect_ratio |-> aspectRatio,
                           image_size |-> IF resolution # "" THEN Some(resolution) ELSE None],
         tools |-> IF searchWeb THEN <<"google_search">> ELSE <<>>]]

\* image_generator.js:311-364, the parts array of _buildYunwuPayload.
YunwuParts(prompt, mode, inputImage, sourceImage, referenceImage) ==
    IF sourceImage # "" \/ referenceImage # ""
      THEN LET nRef == IF referenceImage # "" THEN 1 ELSE 0
               sysRef == IF referenceImage # ""
                           THEN <<"Image ", NumStr(1),
                                  " is the Reference Layer (use this for style/content reference). ">>
                           ELSE <<>>
               sysSrc == IF sourceImage # ""
                           THEN <<"Image ", NumStr(nRef + 1),
                                  " is the Source Layer (the content to be modified). ">>
                           ELSE <<>>
           IN  <<TextPart(<<"System Instruction: ">> \o sysRef \o sysSrc
                          \o <<"\n\nUser Prompt: ">> \o prompt)>>
               \o (IF referenceImage # "" THEN <<InlinePart("image/webp", referenceImage)>> ELSE <<>>)
               \o (IF sourceImage # "" THEN <<InlinePart("image/webp", sourceImage)>> ELSE <<>>)
    ELSE IF mode = "imgedit" /\ inputImage # ""
      THEN <<InlinePart("image/png", inputImage), TextPart(prompt)>>
    ELSE <<TextPart(prompt)>>

\* _buildYunwuPayload
BuildYunwuPayload(prompt, aspectRatio, resolution, mode, searchWeb, inputImage, sourceImage, referenceImage) ==
    [contents |-> <<[parts |-> YunwuParts(prompt, mode, inputImage, sourceImage, referenceImage)]>>,
     generationConfig |->
        [responseModalities |-> <<"image">>,
         imageConfig |-> [aspectRatio |-> aspectRatio,
                          imageSize |-> IF resolution # "" THEN Some(resolution) ELSE None],
         tools |-> IF searchWeb THEN <<"googleSearch">> ELSE <<>>]]

\* Entries of a chat message's content array.
TextEntry(t) == [type |-> "text", text |-> t]
ImageEntry(mime, data) == [type |-> "image_url", image_url |-> [url |-> <<"data:", mime, ";base64,", data>>]]

\* image_generator.js:405-459, the content array of _buildGPTGodPayload.
GPTGodContent(finalPrompt, mode, inputImage, sourceImage, referenceImage) ==
    IF sourceImage # "" \/ referenceImage # ""
      THEN LET nRef == IF referenceImage # "" THEN 1 ELSE 0
               annRef == IF referenceImage # ""
                           THEN <<"\n[Attached Image ", NumStr(1), ": Reference]">> ELSE <<>>
               annSrc == IF sourceImage # ""
                           THEN <<"\n[Attached Image ", NumStr(nRef + 1), ": Source]">> ELSE <<>>
           IN  <<TextEntry(finalPrompt \o annRef \o annSrc)>>
               \o (IF referenceImage # "" THEN <<ImageEntry("image/webp", referenceImage)>> ELSE <<>>)
               \o (IF sourceImage # "" THEN <<ImageEntry("image/webp", sourceImage)>> ELSE <<>>)
    ELSE IF mode = "imgedit" /\ inputImage # ""
      THEN <<ImageEntry("image/png", inputImage), TextEntry(finalPrompt)>>
    ELSE <<TextEntry(finalPrompt)>>

\* _buildGPTGodPayload
BuildGPTGodPayload(prompt, aspectRatio, resolution, provider, mode, searchWeb, inputImage, sourceImage, referenceImage) ==
    LET model == IF Includes(provider.baseUrl, "gptgod.online")
                    /\ provider.model = <<"gemini-3-pro-image-preview">>
                   THEN IF resolution = "2K" THEN <<"gemini-3-pro-image-preview-2k">>
                        ELSE IF resolution = "4K" THEN <<"gemini-3-pro-image-preview-4k">>
                        ELSE provider.model
                   ELSE provider.model
        finalPrompt == IF aspectRatio # "" /\ aspectRatio # "1:1"
                         THEN prompt \o <<"\nAspect Ratio: ", aspectRatio>> ELSE prompt
    IN  [model |-> model,
         messages |-> <<[role |-> "user",
                         content |-> GPTGodContent(finalPrompt, mode, inputImage, sourceImage, referenceImage)]>>,
         stream |-> FALSE]

\* image_generator.js:486-535, messageContent of _buildOpenRouterPayload.
\* In text-to-image mode the content is the prompt string itself, not an array:
\* it is modelled as the array holding that one text.
OpenRouterContent(prompt, mode, inputImage, sourceImage, referenceImage) ==
    IF sourceImage # "" \/ referenceImage # ""
      THEN <<TextEntry(prompt)>>
           \o (IF referenceImage # "" THEN <<ImageEntry("image/webp", referenceImage)>> ELSE <<>>)
           \o (IF sourceImage # "" THEN <<ImageEntry("image/webp", sourceImage)>> ELSE <<>>)
    ELSE IF mode = "imgedit" /\ inputImage # ""
      THEN <<ImageEntry("image/png", inputImage), TextEntry(prompt)>>
    ELSE <<TextEntry(prompt)>>

\* _buildOpenRouterPayload
BuildOpenRouterPayload(prompt, aspectRatio, resolution, provider, mode, searchWeb, inputImage, sourceImage, referenceImage) ==
    [model |-> provider.model,
     messages |-> <<[role |-> "user",
                     content |-> OpenRouterContent(prompt, mode, inputImage, sourceImage, referenceImage)]>>,
     modalities |-> <<"image", "text">>,
     image_config |-> [aspect_ratio |-> aspectRatio,
                       image_size |-> IF resolution # "" THEN Some(resolution) ELSE None]]

\* _getAspectRatioDescription(aspectRatio)
GetAspectRatioDescription(aspectRatio) ==
    CASE aspectRatio = "16:9" -> <<"Aspect ratio 16:9, wide landscape format">>
      [] aspectRatio = "9:16" -> <<"Aspect ratio 9:16, tall portrait format">>
      [] aspectRatio = "4:3" -> <<"Aspect ratio 4:3, landscape format">>
      [] aspectRatio = "3:4" -> <<"Aspect ratio 3:4, portrait format">>
      [] aspectRatio = "21:9" -> <<"Aspect ratio 21:9, ultra-wide format">>
      [] aspectRatio = "3:2" -> <<"Aspect ratio 3:2, landscape format">>
      [] aspectRatio = "2:3" -> <<"Aspect ratio 2:3, portrait format">>
      [] aspectRatio = "1:1" -> <<"Aspect ratio 1:1, square format">>
      [] OTHER -> <<"Aspect ratio ", aspectRatio>>

\* _buildSeedreamPayload; image is None when the payload has no image field.
BuildSeedreamPayload(prompt, aspectRatio, resolution, provider, mode, searchWeb, inputImage, sourceImage, referenceImage) ==
    LET finalPrompt == IF aspectRatio # "" /\ aspectRatio # "1:1"
                         THEN prompt \o <<". ">> \o GetAspectRatioDescription(aspectRatio)
                         ELSE prompt
        size0 == IF resolution # "" THEN resolution ELSE "2K"
        is45 == IncludesLower(provider.model, "4-5") \/ IncludesLower(provider.model, "4.5")
        finalSize == IF is45 /\ size0 = "1K" THEN "2K" ELSE size0
        single == mode = "imgedit" /\ inputImage # ""
    IN  [model |-> provider.model,
         prompt |-> IF ~single /\ sourceImage # "" /\ referenceImage # ""
                      THEN <<"[Style Reference: See attached image] ">> \o finalPrompt
                      ELSE finalPrompt,
         size |-> finalSize,
         watermark |-> FALSE,
         image |-> IF single THEN Some(<<"data:", "image/png", ";base64,", inputImage>>)
                   ELSE IF sourceImage # "" THEN Some(<<"data:", "image/webp", ";base64,", sourceImage>>)
                   ELSE IF referenceImage # "" THEN Some(<<"data:", "image/webp", ";base64,", referenceImage>>)
                   ELSE None]


\* ========================================================= pixel geometry
RECURSIVE IsqrtIn(_, _, _)
\* Largest k in lo..hi with k*k <= n (lo*lo <= n is given).
IsqrtIn(n, lo, hi) ==
    IF lo >= hi THEN lo
    ELSE LET mid == (lo + hi + 1) \div 2
         IN  IF mid * mid <= n THEN IsqrtIn(n, mid, hi) ELSE IsqrtIn(n, lo, mid - 1)

Isqrt(n) == IsqrtIn(n, 0, 46340)

\* JavaScript numbers: a finite integer, NaN, or +Infinity.
Fin(n) == [k |-> "fin", v |-> n]
NaN == [k |-> "nan", v |-> 0]
Infinity == [k |-> "inf", v |-> 0]

\* JSON.stringify of a number: NaN and Infinity become null.
JsonNumber(x) == IF x.k = "fin" THEN x.v ELSE None

\* aspectRatio.split(":").map(Number) for the ratio strings of the model: <<w, h>>,
\* or <<>> when the string is empty or has no ":" (the split is not reached).
ParseRatio(aspectRatio) ==
    CASE aspectRatio = "16:9" -> <<Fin(16), Fin(9)>>
      [] aspectRatio = "9:16" -> <<Fin(9), Fin(16)>>
      [] aspectRatio = "4:3" -> <<Fin(4), Fin(3)>>
      [] aspectRatio = "3:4" -> <<Fin(3), Fin(4)>>
      [] aspectRatio = "21:9" -> <<Fin(21), Fin(9)>>
      [] aspectRatio = "3:2" -> <<Fin(3), Fin(2)>>
      [] aspectRatio = "2:3" -> <<Fin(2), Fin(3)>>
      [] aspectRatio = "1:1" -> <<Fin(1), Fin(1)>>
      [] aspectRatio = "0:1" -> <<Fin(0), Fin(1)>>
      [] aspectRatio = "1:0" -> <<Fin(1), Fin(0)>>
      [] aspectRatio = ":" -> <<Fin(0), Fin(0)>>
      [] aspectRatio = "-1:1" -> <<Fin(0 - 1), Fin(1)>>
      [] aspectRatio = "a:b" -> <<NaN, NaN>>
      [] aspectRatio = "100000:1" -> <<Fin(100000), Fin(1)>>
      [] OTHER -> <<>>

\* Math.round(x / 8) * 8
RoundTo8(x) == IF x.k = "fin" THEN Fin(((x.v + 4) \div 8) * 8) ELSE x

\* _getPixelDimensions(resolution, aspectRatio).  For a ratio a/b with a, b > 0 the
\* arithmetic is exact: Math.round(x) is floor(x + 1/2).
GetPixelDimensions(resolution, aspectRatio) ==
    LET baseSize == IF resolution = "4K" THEN 4096 ELSE IF resolution = "2K" THEN 2048 ELSE 1024
        r == ParseRatio(aspectRatio)
        \* if (h !== 0) ratioVal = w / h, else ratioVal stays 1.0
        one == r = <<>> \/ r[2] = Fin(0)
        nan == ~one /\ (r[1].k = "nan" \/ r[2].k = "nan")
        a == IF one \/ nan THEN 1 ELSE IF r[2].v < 0 THEN 0 - r[1].v ELSE r[1].v
        b == IF one \/ nan THEN 1 ELSE IF r[2].v < 0 THEN 0 - r[2].v ELSE r[2].v
        \* h = round(baseSize / sqrt(a/b)): 2h-1 <= sqrt(4*baseSize^2*b/a) < 2h+1
        h0 == IF nan \/ a < 0 THEN NaN
              ELSE IF a = 0 THEN Infinity
              ELSE Fin((Isqrt((4 * baseSize * baseSize * b) \div a) + 1) \div 2)
        \* w = round(h * a/b); Infinity * 0 is NaN
        w0 == IF h0.k = "nan" \/ h0.k = "inf" THEN NaN
              ELSE Fin((2 * h0.v * a + b) \div (2 * b))
    IN  [width |-> RoundTo8(w0), height |-> RoundTo8(h0)]

\* ====================================================== workflow templates
Ref(node, slot) == <<node, slot>>

\* workflow_templates.js, Z_IMAGE_TURBO_WORKFLOW
Z_IMAGE_TURBO_WORKFLOW ==
    ("9" :> [class_type |-> "SaveImage",
             inputs |-> [filename_prefix |-> "PSBanana_Z_Image", images |-> Ref("43", 0)]])
 @@ ("39" :> [class_type |-> "CLIPLoader",
              inputs |-> [clip_name |-> "qwen_3_4b.safetensors", type |-> "lumina2", device |-> "default"]])
 @@ ("40" :> [class_type |-> "VAELoader", inputs |-> [vae_name |-> "ae.safetensors"]])
 @@ ("41" :> [class_type |-> "EmptySD3LatentImage",
              inputs |-> [width |-> 1024, height |-> 1024, batch_size |-> 1]])
 @@ ("42" :> [class_type |-> "ConditioningZeroOut", inputs |-> [conditioning |-> Ref("45", 0)]])
 @@ ("43" :> [class_type |-> "VAEDecode", inputs |-> [samples |-> Ref("44", 0), vae |-> Ref("40", 0)]])
 @@ ("44" :> [class_type |-> "KSampler",
              inputs |-> [cfg |-> 1, denoise |-> 1, latent_image |-> Ref("41", 0), model |-> Ref("47", 0),
                          negative |-> Ref("42", 0), positive |-> Ref("45", 0),
                          sampler_name |-> "res_multistep", scheduler |-> "simple",
                          seed |-> 12345, steps |-> 9]])
 @@ ("45" :> [class_type |-> "CLIPTextEncode", inputs |-> [clip |-> Ref("39", 0), text |-> <<>>]])
 @@ ("46" :> [class_type |-> "UNETLoader",
              inputs |-> [unet_name |-> "z_image_turbo_bf16.safetensors", weight_dtype |-> "default"]])
 @@ ("47" :> [class_type |-> "ModelSamplingAuraFlow", inputs |-> [model |-> Ref("46", 0), shift |-> 3]])

\* workflow_templates.js, QWEN_IMAGE_EDIT_WORKFLOW (null is None)
QWEN_IMAGE_EDIT_WORKFLOW ==
    ("37" :> [class_type |-> "UNETLoader",
              inputs |-> [unet_name |-> "qwen_image_edit_2509_fp8_e4m3fn.safetensors",
                          weight_dtype |-> "default"]])
 @@ ("89" :> [class_type |-> "LoraLoaderModelOnly",
              inputs |-> [model |-> Ref("37", 0),
                          lora_name |-> "Qwen-Image-Edit-2509-Lightning-4steps-V1.0-bf16.safetensors",
                          strength_model |-> 1]])
 @@ ("38" :> [class_type |-> "CLIPLoader",
              inputs |-> [clip_name |-> "qwen_2.5_vl_7b_fp8_scaled.safetensors",
                          type |-> "qwen_image", device |-> "default"]])
 @@ ("39" :> [class_type |-> "VAELoader", inputs |-> [vae_name |-> "qwen_image_vae.safetensors"]])
 @@ ("66" :> [class_type |-> "ModelSamplingAuraFlow", inputs |-> [model |-> Ref("89", 0), shift |-> 3]])
 @@ ("75" :> [class_type |-> "CFGNorm", inputs |-> [model |-> Ref("66", 0), strength |-> 1]])
 @@ ("78" :> [class_type |-> "LoadImage", inputs |-> [image |-> "source.png", upload |-> "image"]])
 @@ ("120" :> [class_type |-> "LoadImage", inputs |-> [image |-> "reference.png", upload |-> "image"]])
 @@ ("93" :> [class_type |-> "ImageScaleToTotalPixels",
              inputs |-> [image |-> Ref("78", 0), upscale_method |-> "lanczos", megapixels |-> 1]])
 @@ ("88" :> [class_type |-> "VAEEncode", inputs |-> [pixels |-> Ref("93", 0), vae |-> Ref("39", 0)]])
 @@ ("110" :> [class_type |-> "TextEncodeQwenImageEditPlus",
               inputs |-> [clip |-> Ref("38", 0), vae |-> Ref("39", 0), image1 |-> Ref("93", 0),
                           image2 |-> Ref("120", 0), image3 |-> None, prompt |-> <<>>]])
 @@ ("111" :> [class_type |-> "TextEncodeQwenImageEditPlus",
               inputs |-> [clip |-> Ref("38", 0), vae |-> Ref("39", 0), image1 |-> Ref("93", 0),
                           image2 |-> Ref("120", 0), image3 |-> None, prompt |-> <<>>]])
 @@ ("3" :> [class_type |-> "KSampler",
             inputs |-> [cfg |-> 1, denoise |-> 1, latent_image |-> Ref("88", 0), model |-> Ref("75", 0),
                         negative |-> Ref("110", 0), positive |-> Ref("111", 0),
                         sampler_name |-> "euler", scheduler |-> "simple", seed |-> 12345, steps |-> 4]])
 @@ ("8" :> [class_type |-> "VAEDecode", inputs |-> [samples |-> Ref("3", 0), vae |-> Ref("39", 0)]])
 @@ ("60" :> [class_type |-> "SaveImage",
              inputs |-> [filename_prefix |-> "PSBanana_QwenEdit", images |-> Ref("8", 0)]])

\* workflow[id].inputs.field = value, guarded by `workflow[id] && workflow[id].inputs`.
SetInput(wf, id, field, value) ==
    IF id \in DOMAIN wf
      THEN [wf EXCEPT ![id].inputs =
                [f \in (DOMAIN @) \cup {field} |-> IF f = field THEN value ELSE @[f]]]
      ELSE wf

\* delete workflow[id]
DeleteNode(wf, id) == [n \in DOMAIN wf \ {id} |-> wf[n]]

\* The name the graph executor's /upload/image reply gives the uploaded image (result.name).
UploadedName(image) ==
    CASE image = "SRC" -> "srv_SRC.png" [] image = "REF" -> "srv_REF.png"
      [] image = "INP" -> "srv_INP.png" [] OTHER -> "srv.png"


\* ========================================================= response bodies
\* A parsed JSON response body.  A field the body does not have is None.
\*   candidates : None | Some(seq of [content |-> None | Some([parts |-> seq of parts])])
\*   choices    : None | Some(seq of [message |-> [content |-> string, images |-> seq of url]])
\*   error      : None | Some(string)      (error, or error.message of an error object)
\*   data       : None | Some(seq of [url |-> string])
\*   image      : string, images : seq of string   (GPTGod direct fields)
\*   prompt_id  : string
\*   detail     : None | Some(string)      (a field no parser looks at)
EmptyBody ==
    [candidates |-> None, choices |-> None, error |-> None, data |-> None,
     image |-> <<>>, images |-> <<>>, prompt_id |-> <<>>, detail |-> None]

\* The explanatory text an upstream service puts in place of an image.
Refusal == <<"Sorry,", " ", "I cannot generate that image.">>

HttpUrl == <<"https://cdn.example/out.png">>
DataUrl == <<"data:", "image/png", ";base64,", "OUT">>

Candidate(parts) == [content |-> Some([parts |-> parts])]
Choice(content, images) == [message |-> [content |-> content, images |-> images]]

GeminiBodies ==
    { [EmptyBody EXCEPT !.candidates = Some(<<Candidate(<<TextPart(<<"ok">>), InlinePart("image/png", "OUT")>>)>>)],
      [EmptyBody EXCEPT !.candidates = Some(<<Candidate(<<TextPart(Refusal)>>)>>)],
      [EmptyBody EXCEPT !.candidates = Some(<<Candidate(<<TextPart(<<"Note:">>), TextPart(Refusal)>>)>>)],
      [EmptyBody EXCEPT !.candidates = Some(<<Candidate(<<>>)>>)],
      [EmptyBody EXCEPT !.candidates = Some(<<[content |-> None]>>), !.error = Some(Refusal)],
      [EmptyBody EXCEPT !.error = Some(Refusal)],
      [EmptyBody EXCEPT !.candidates = Some(<<>>), !.detail = Some(Refusal)] }

GPTGodBodies ==
    { [EmptyBody EXCEPT !.image = HttpUrl],
      [EmptyBody EXCEPT !.images = <<HttpUrl>>],
      [EmptyBody EXCEPT !.choices = Some(<<Choice(<<"Here: ">> \o HttpUrl, <<>>)>>)],
      [EmptyBody EXCEPT !.choices = Some(<<Choice(Refusal, <<>>)>>)],
      [EmptyBody EXCEPT !.choices = Some(<<>>), !.error = Some(Refusal)],
      [EmptyBody EXCEPT !.error = Some(<<"AuthenticationError", ": ">> \o Refusal)],
      [EmptyBody EXCEPT !.detail = Some(Refusal)] }

OpenRouterBodies ==
    { [EmptyBody EXCEPT !.choices = Some(<<Choice(<<>>, <<DataUrl>>)>>)],
      [EmptyBody EXCEPT !.choices = Some(<<Choice(<<>>, <<HttpUrl>>)>>)],
      [EmptyBody EXCEPT !.choices = Some(<<Choice(Refusal, <<>>)>>)],
      [EmptyBody EXCEPT !.choices = Some(<<>>), !.error = Some(Refusal)],
      [EmptyBody EXCEPT !.error = Some(Refusal)] }

SeedreamBodies ==
    { [EmptyBody EXCEPT !.data = Some(<<[url |-> HttpUrl]>>)],
      [EmptyBody EXCEPT !.data = Some(<<[url |-> <<>>]>>), !.error = Some(Refusal)],
      [EmptyBody EXCEPT !.data = Some(<<>>), !.error = Some(Refusal)],
      [EmptyBody EXCEPT !.error = Some(<<"size", " ", "not supported", ": ">> \o Refusal)],
      [EmptyBody EXCEPT !.detail = Some(Refusal)] }

ComfyBodies ==
    { [EmptyBody EXCEPT !.prompt_id = <<"42">>],
      [EmptyBody EXCEPT !.error = Some(Refusal)] }

BodiesOf(providerType) ==
    CASE providerType \in {"google_official", "yunwu"} -> GeminiBodies
      [] providerType = "gptgod" -> GPTGodBodies
      [] providerType = "openrouter" -> OpenRouterBodies
      [] providerType = "seedream" -> SeedreamBodies
      [] providerType = "comfyui" -> ComfyBodies
      [] OTHER -> {}

\* ======================================================== response parsers
IsSpace(tok) == tok = " "

RECURSIVE TrimLeft(_)
TrimLeft(s) == IF s # <<>> /\ IsSpace(Head(s)) THEN TrimLeft(Tail(s)) ELSE s

RECURSIVE TrimRight(_)
TrimRight(s) ==
    IF s # <<>> /\ IsSpace(s[Len(s)]) THEN TrimRight(SubSeq(s, 1, Len(s) - 1)) ELSE s

\* String.prototype.trim
Trim(s) == TrimRight(TrimLeft(s))

RECURSIVE JoinSpace(_)
\* Array.prototype.join(' ') on a sequence of strings
JoinSpace(ss) ==
    IF ss = <<>> THEN <<>>
    ELSE IF Len(ss) = 1 THEN ss[1]
    ELSE ss[1] \o <<" ">> \o JoinSpace(Tail(ss))

IsTextPart(part) == "text" \in DOMAIN part /\ part.text # <<>>
IsInlinePart(part) == "inlineData" \in DOMAIN part

\* _extractTextFromParts(parts)
ExtractTextFromParts(parts) ==
    LET texts == SelectSeq(parts, IsTextPart)
    IN  Trim(JoinSpace([k \in 1..Len(texts) |-> texts[k].text]))

\* JSON.stringify(responseData), for the bodies that reach the fallback.
Stringify(body) ==
    <<"{">>
    \o (IF body.candidates # None THEN <<"\"candidates\":[]">> ELSE <<>>)
    \o (IF body.choices # None THEN <<"\"choices\":[]">> ELSE <<>>)
    \o (IF body.data # None THEN <<"\"data\":[]">> ELSE <<>>)
    \o (IF body.detail # None THEN <<"\"detail\":\"">> \o body.detail[1] \o <<"\"">> ELSE <<>>)
    \o <<"}">>

\* image_generator.js:1239, the length the fallback JSON text is cut to.
FallbackJsonLen == 200

HasToken(s, tok) == \E k \in 1..Len(s) : s[k] = tok

\* _extractServerMessage(responseData); a TypeError inside is caught by its try block.
ExtractServerMessage(body) ==
    LET cand == IF body.candidates # None /\ body.candidates[1] # <<>>
                  THEN Some(body.candidates[1][1]) ELSE None
        candText == IF cand # None /\ cand[1].content # None
                      THEN ExtractTextFromParts(cand[1].content[1].parts) ELSE <<>>
        choice == IF body.choices # None /\ body.choices[1] # <<>>
                    THEN Some(body.choices[1][1]) ELSE None
        content == IF choice # None THEN choice[1].message.content ELSE <<>>
        json == Stringify(body)
    IN  IF candText # <<>> THEN <<"Server message: ">> \o candText
        ELSE IF content # <<>> THEN <<"Server message: ">> \o content
        ELSE IF body.error # None /\ body.error[1] # <<>>
          THEN LET errorMsg == body.error[1]
               IN  IF HasToken(errorMsg, "AuthenticationError") \/ HasToken(errorMsg, "API key")
                     THEN <<"Authentication error: ">> \o errorMsg \o <<"\n\nPlease check: ...">>
                   ELSE IF HasToken(errorMsg, "size")
                           /\ (HasToken(errorMsg, "not supported") \/ HasToken(errorMsg, "not valid"))
                     THEN <<"Size parameter error: ">> \o errorMsg \o <<"\n\nHint: ...">>
                   ELSE <<"Error: ">> \o errorMsg
        ELSE <<"Response: ">>
             \o (IF Len(json) > FallbackJsonLen THEN Substring0(json, FallbackJsonLen) \o <<"...">> ELSE json)

\* Results of a parser: the image to save or fetch, or the error it throws.
SaveBase64(data) == [kind |-> "base64", data |-> data, msg |-> <<>>]
Download(url) == [kind |-> "download", data |-> "", msg |-> url]
Throw(msg) == [kind |-> "throw", data |-> "", msg |-> msg]

TypeErrorMsg(prop) == <<"Cannot read properties of undefined (reading '", prop, "')">>

\* _processGeminiResponse(responseData), up to its await
ProcessGeminiResponse(body) ==
    IF body.candidates = None \/ body.candidates[1] = <<>>
      THEN Throw(<<"No image generated. ">> \o ExtractServerMessage(body))
    ELSE IF body.candidates[1][1].content = None
      THEN Throw(TypeErrorMsg("parts"))
    ELSE LET parts == body.candidates[1][1].content[1].parts
             inl == SelectSeq(parts, IsInlinePart)
             textContent == ExtractTextFromParts(parts)
         IN  IF inl # <<>> THEN SaveBase64(inl[1].inlineData.data)
             ELSE IF textContent # <<>> THEN Throw(<<"No image. AI response: ">> \o textContent)
             ELSE Throw(<<"No image generated">>)

\* The URL the two regular expressions of _processGPTGodResponse find in content.
UrlIn(content) ==
    LET hits == SelectSeq(content, LAMBDA tok : tok = HttpUrl[1])
    IN  IF hits # <<>> THEN <<hits[1]>> ELSE <<>>

\* _processGPTGodResponse(responseData), up to its await
ProcessGPTGodResponse(body) ==
    LET imageUrl ==
            IF body.image # <<>> THEN body.image
            ELSE IF body.images # <<>> THEN body.images[1]
            ELSE IF body.choices # None /\ body.choices[1] # <<>>
              THEN UrlIn(body.choices[1][1].message.content)
            ELSE <<>>
    IN  IF imageUrl # <<>> THEN Download(imageUrl)
        ELSE Throw(<<"No image generated. ">> \o ExtractServerMessage(body))

\* The first test of _processOpenRouterResponse:
\*   !responseData.choices || !responseData.choices.length === 0
\* (!x.length is a boolean, never === 0: the second disjunct is always false).
OpenRouterNoChoices(body) == body.choices = None \/ FALSE

\* _processOpenRouterResponse(responseData), up to its await
ProcessOpenRouterResponse(body) ==
    IF OpenRouterNoChoices(body)
      THEN Throw(<<"No image generated. ">> \o ExtractServerMessage(body))
    ELSE IF body.choices[1] = <<>>
      THEN Throw(TypeErrorMsg("message"))
    ELSE LET message == body.choices[1][1].message
         IN  IF message.images # <<>> /\ message.images[1] # <<>>
               THEN LET url == message.images[1]
                    IN  IF url[1] = "data:" THEN SaveBase64(url[4]) ELSE Download(url)
             ELSE Throw(<<"No image generated. ">> \o ExtractServerMessage(body))

\* _processSeedreamResponse(responseData), up to its await
ProcessSeedreamResponse(body) ==
    IF body.data = None \/ body.data[1] = <<>>
      THEN Throw(<<"No image generated. ">> \o ExtractServerMessage(body))
    ELSE IF body.data[1][1].url = <<>>
      THEN Throw(<<"No image URL in Seedream response">>)
    ELSE Download(body.data[1][1].url)


\* ====================================================== generator: state
\* image_generator.js:1117  const maxRetries = 300
MaxRetries == 300
\* image_generator.js:101  errorText.substring(0, 200)
HttpErrorTextLen == 200
\* Longest body of a non-2xx reply the model draws.
MaxErrLen == 203

VARIABLES
    gpc,            \* position of the generate call (the await it is suspended at)
    opts,           \* the options of the call
    providerType,   \* result of _detectProviderType
    seed,           \* the seed _buildComfyUIPayload draws
    workflow,       \* the graph _buildComfyUIPayload is working on
    payload,        \* None, or Some(the payload _buildPayload returned)
    uploads,        \* images sent to /upload/image, in order
    http,           \* number of HTTP requests issued, by kind
    writes,         \* side-channel writes (savePayload, saveResponse, saveLog), in order
    response,       \* the reply to the generation request: status, error text, JSON body
    retries,        \* the poll loop's counter
    outputImages,   \* None, or Some(output descriptor) found by the poll loop
    pending,        \* the error the catch block of generate is handling
    outcome,        \* what generate returned or raised
    wfFile,         \* Workflows/comfy_t2i_workflow.json on disk: None or Some(graph)
    abortRequested, \* the host asked to abort the generation
    firstOutputAt,  \* number of the first poll whose reply held outputs (0: none yet)
    onlyAbsent,     \* every poll reply so far had no entry for the job
    templates,      \* the module-level template objects of workflow_templates.js, by name
    alias,          \* the template object `workflow` is ("none": an object of its own)
    calls           \* number of generate calls that have returned

genVars == <<gpc, opts, providerType, seed, workflow, payload, uploads, http, writes, response,
             retries, outputImages, pending, outcome, wfFile, abortRequested, firstOutputAt,
             onlyAbsent, templates, alias, calls>>

tplVars == <<templates, alias, calls>>

\* ------------------------------------------------- calls of pure functions
VARIABLES
    fnOp,    \* which function is called ("none": no call)
    fnIn,    \* its arguments
    fnOut    \* the values its calls returned, in order

fnVars == <<fnOp, fnIn, fnOut>>

FnIdle == fnOp = "none" /\ fnIn = <<>> /\ fnOut = <<>>

vars == <<hostVars, genVars, fnVars>>

Prompts == {<<"a red fox">>}
\* Values Math.floor(Math.random() * 1000000000) takes in the model: one value in a
\* first call, the same or another one in a later call.
Seeds == IF calls = 0 THEN {424242} ELSE {424242, 77}

Options(provider, prompt, aspectRatio, resolution, debugMode, mode, searchWeb, inputImage, sourceImage, referenceImage) ==
    [provider |-> provider, prompt |-> prompt, aspectRatio |-> aspectRatio,
     resolution |-> resolution, debugMode |-> debugMode, mode |-> mode, searchWeb |-> searchWeb,
     inputImage |-> inputImage, sourceImage |-> sourceImage, referenceImage |-> referenceImage]

\* The calls of generate the model draws: every combination of mode, images and
\* debugMode, and every combination of aspect ratio, resolution and searchWeb.
OptionSet ==
    { Options(pr, p, "16:9", "2K", d, m, FALSE, i, s, r) :
        pr \in ProviderOptions, p \in Prompts, d \in BOOLEAN, m \in {"text2img", "imgedit"},
        i \in {"", "INP"}, s \in {"", "SRC"}, r \in {"", "REF"} }
    \cup
    { Options(pr, p, a, res, FALSE, "text2img", w, "", "", "") :
        pr \in ProviderOptions, p \in Prompts, a \in {"1:1", "16:9"}, res \in {"1K", "2K"},
        w \in BOOLEAN }

NoOptions == Options(None, <<>>, "", "", FALSE, "text2img", FALSE, "", "", "")
NoResponse == [status |-> 0, errorText |-> <<>>, body |-> EmptyBody]
NoOutcome == [kind |-> "none", msg |-> <<>>]
NoHttp == [upload |-> 0, submit |-> 0, poll |-> 0, download |-> 0]

\* The state before a call of generate, but for the template file on disk.
GenInitCall ==
    /\ gpc = "idle"
    /\ opts = NoOptions
    /\ providerType = ""
    /\ seed = 0
    /\ workflow = <<>>
    /\ payload = None
    /\ uploads = <<>>
    /\ http = NoHttp
    /\ writes = <<>>
    /\ response = NoResponse
    /\ retries = 0
    /\ outputImages = None
    /\ pending = <<>>
    /\ outcome = NoOutcome
    /\ abortRequested = FALSE
    /\ firstOutputAt = 0
    /\ onlyAbsent = TRUE
    /\ templates = [z |-> Z_IMAGE_TURBO_WORKFLOW, qwen |-> QWEN_IMAGE_EDIT_WORKFLOW]
    /\ alias = "none"
    /\ calls = 0

GenInit == GenInitCall /\ wfFile = None


\* ================================================== generator: graph build
\* Numeric value of a node id: Object.entries lists integer-like keys in ascending order.
NodeNum(id) ==
    CASE id = "1" -> 1 [] id = "2" -> 2 [] id = "3" -> 3 [] id = "4" -> 4 [] id = "5" -> 5
      [] id = "6" -> 6 [] id = "7" -> 7 [] id = "8" -> 8 [] id = "9" -> 9
      [] id = "37" -> 37 [] id = "38" -> 38 [] id = "39" -> 39 [] id = "40" -> 40
      [] id = "41" -> 41 [] id = "42" -> 42 [] id = "43" -> 43 [] id = "44" -> 44
      [] id = "45" -> 45 [] id = "46" -> 46 [] id = "47" -> 47 [] id = "60" -> 60
      [] id = "66" -> 66 [] id = "75" -> 75 [] id = "78" -> 78 [] id = "88" -> 88
      [] id = "89" -> 89 [] id = "93" -> 93 [] id = "110" -> 110 [] id = "111" -> 111
      [] id = "120" -> 120 [] OTHER -> 0

IsSampler(node) == node.class_type \in {"KSampler", "KSamplerAdvanced"}

\* class_type.startsWith('EmptyLatentImage') || class_type.includes('EmptySD3Latent')
IsLatentSize(node) == node.class_type \in {"EmptyLatentImage", "EmptySD3LatentImage"}

\* Array.isArray(x) for an input value that is a node reference <<id, slot>>.
IsRef(inputs, field) == field \in DOMAIN inputs /\ inputs[field] # None /\ Len(inputs[field]) = 2

\* An injection that sets the seed and the latent size but leaves the prompt text of the file.
InjectParamsIntoWorkflow_KeepsText(wf, prompt, width, height, sd) ==
    LET samplers == {id \in DOMAIN wf : IsSampler(wf[id])}
        first == CHOOSE id \in samplers : \A o \in samplers : NodeNum(id) <= NodeNum(o)
    IN  IF samplers = {} THEN wf ELSE SetInput(wf, first, "seed", sd)

\* _injectParamsIntoWorkflow(workflow, prompt, width, height, seed, null)
InjectParamsIntoWorkflow(wf, prompt, width, height, sd) ==
    LET samplers == {id \in DOMAIN wf : IsSampler(wf[id])}
        first == IF samplers = {} THEN None
                 ELSE Some(CHOOSE id \in samplers : \A o \in samplers : NodeNum(id) <= NodeNum(o))
        wf1 == IF first = None THEN wf ELSE SetInput(wf, first[1], "seed", sd)
        positiveNodeId == IF first # None /\ IsRef(wf[first[1]].inputs, "positive")
                            THEN Some(wf[first[1]].inputs.positive[1]) ELSE None
        wf2 == [id \in DOMAIN wf1 |->
                   IF IsLatentSize(wf1[id])
                     THEN [wf1[id] EXCEPT !.inputs =
                             [f \in (DOMAIN @) \cup {"width", "height"} |->
                                IF f = "width" THEN width ELSE IF f = "height" THEN height ELSE @[f]]]
                     ELSE wf1[id]]
    IN  IF positiveNodeId # None /\ positiveNodeId[1] \in DOMAIN wf2
          THEN SetInput(wf2, positiveNodeId[1], "text", prompt)
          ELSE wf2

\* image_generator.js:700-717, the built-in text-to-image graph with its parameters.
BuiltinT2IWorkflow(wf, prompt, width, height, sd) ==
    SetInput(SetInput(SetInput(SetInput(wf, "45", "text", prompt),
                               "41", "width", width), "41", "height", height), "44", "seed", sd)

FinishEditWorkflow_KeepsImage2(wf, prompt, sd, referenceImage) ==
    LET wf1 == IF referenceImage # "" THEN wf ELSE DeleteNode(wf, "120")
    IN  SetInput(SetInput(wf1, "111", "prompt", prompt), "3", "seed", sd)

\* image_generator.js:663-684, the image-edit graph once the uploads are done:
\* without a reference image, image2 of nodes 110 and 111 is nulled and node 120 deleted.
FinishEditWorkflow(wf, prompt, sd, referenceImage) ==
    LET wf1 == IF referenceImage # "" THEN wf
               ELSE DeleteNode(SetInput(SetInput(wf, "110", "image2", None), "111", "image2", None), "120")
    IN  SetInput(SetInput(wf1, "111", "prompt", prompt), "3", "seed", sd)

\* The value _buildComfyUIPayload returns.
ComfyPayload(wf) == [prompt |-> wf, client_id |-> "ps_banana_uxp_"]

\* _buildPayload for the five families whose builder makes no request.
BuildPayload(o, ptype) ==
    LET pv == o.provider[1]
    IN  CASE ptype = "google_official" ->
               BuildGooglePayload(o.prompt, o.aspectRatio, o.resolution, o.mode, o.searchWeb,
                                  o.inputImage, o.sourceImage, o.referenceImage)
          [] ptype = "yunwu" ->
               BuildYunwuPayload(o.prompt, o.aspectRatio, o.resolution, o.mode, o.searchWeb,
                                 o.inputImage, o.sourceImage, o.referenceImage)
          [] ptype = "gptgod" ->
               BuildGPTGodPayload(o.prompt, o.aspectRatio, o.resolution, pv, o.mode, o.searchWeb,
                                  o.inputImage, o.sourceImage, o.referenceImage)
          [] ptype = "openrouter" ->
               BuildOpenRouterPayload(o.prompt, o.aspectRatio, o.resolution, pv, o.mode, o.searchWeb,
                                      o.inputImage, o.sourceImage, o.referenceImage)
          [] ptype = "seedream" ->
               BuildSeedreamPayload(o.prompt, o.aspectRatio, o.resolution, pv, o.mode, o.searchWeb,
                                    o.inputImage, o.sourceImage, o.referenceImage)

\* ===================================================== generator: actions
\* image_generator.js:41, the configuration test of generate.
InvalidProvider_NoUrlCheck(o) == o.provider = None \/ o.provider[1].apiKey = <<>>

InvalidProvider(o) ==
    o.provider = None \/ o.provider[1].apiKey = <<>> \/ o.provider[1].baseUrl = <<>>

Error(msg) == [kind |-> "error", msg |-> msg]

\* image_generator.js:71-82: with the payload built, savePayload under debugMode,
\* then the generation request is sent.
AfterBuild_AlwaysSaves(pl, dbg) ==
    /\ payload' = Some(pl)
    /\ gpc' = "save_payload"
    /\ http' = http

AfterBuild(pl, dbg) ==
    /\ payload' = Some(pl)
    /\ IF dbg
         THEN /\ gpc' = "save_payload"
              /\ http' = http
         ELSE /\ gpc' = "dispatch"
              /\ http' = [http EXCEPT !.submit = @ + 1]

\* image_generator.js:115-132, the catch block of generate: saveLog under debugMode,
\* then the error is raised again with the prefix "Generation failed: ".
Wrap(msg) == <<"Generation failed: ">> \o msg

Catch(msg) ==
    IF opts.debugMode
      THEN /\ gpc' = "save_error_log"
           /\ pending' = msg
           /\ outcome' = outcome
      ELSE /\ gpc' = "done"
           /\ pending' = pending
           /\ outcome' = Error(Wrap(msg))

\* JSON.parse(JSON.stringify(TEMPLATE)), image_generator.js:625 and 700: the object the
\* builder works on is a new one, not the template object `name`.
DeepCopy_SameObject(name) == name

DeepCopy(name) == "none"

\* An assignment to a field of `workflow` is an assignment to the object it is: the
\* template object al, when workflow is that object.
WriteThrough(tpl, al, wf) == IF al = "none" THEN tpl ELSE [tpl EXCEPT ![al] = wf]

\* generate(options), from the call to its first await that waits for the outside.
Generate(o) ==
    /\ gpc = "idle"
    /\ opts' = o
    /\ UNCHANGED <<writes, response, retries, outputImages, pending, wfFile, abortRequested,
                   firstOutputAt, onlyAbsent, templates, calls>>
    /\ IF InvalidProvider(o)
         THEN /\ gpc' = "done"
              /\ outcome' = Error(<<"Invalid provider configuration">>)
              /\ UNCHANGED <<providerType, seed, workflow, payload, uploads, http, alias>>
         ELSE LET ptype == DetectProviderType(o.provider[1])
              IN  /\ providerType' = ptype
                  /\ outcome' = outcome
                  /\ IF ptype # "comfyui"
                       THEN /\ AfterBuild(BuildPayload(o, ptype), o.debugMode)
                            /\ UNCHANGED <<seed, workflow, uploads, alias>>
                     ELSE IF o.mode = "imgedit" /\ (o.inputImage # "" \/ o.sourceImage # "")
                       THEN \* the source image is uploaded first
                            /\ seed' \in Seeds
                            /\ workflow' = templates.qwen
                            /\ alias' = DeepCopy("qwen")
                            /\ uploads' = <<IF o.sourceImage # "" THEN o.sourceImage ELSE o.inputImage>>
                            /\ http' = [http EXCEPT !.upload = @ + 1]
                            /\ gpc' = "upload_source"
                            /\ UNCHANGED payload
                     ELSE   \* await fileManager.loadWorkflowFile
                            /\ seed' \in Seeds
                            /\ gpc' = "load_workflow"
                            /\ UNCHANGED <<workflow, payload, uploads, http, alias>>

UploadResults == {"ok", "http_error", "network_error"}

UploadErrorMsg_NoBody(res) ==
    IF res = "http_error" THEN <<"Upload failed: ", NumStr(500)>>
    ELSE <<"Network request failed">>

\* The message of the error _uploadImageToComfyUI raises.
UploadErrorMsg(res) ==
    IF res = "http_error" THEN <<"Upload failed: ", NumStr(500), " - ", "disk full">>
    ELSE <<"Network request failed">>

\* image_generator.js:632-662: the source upload settles.
UploadSourceDone(res) ==
    /\ gpc = "upload_source"
    /\ UNCHANGED <<opts, providerType, seed, writes, response, retries, outputImages, pending,
                   wfFile, abortRequested, firstOutputAt, onlyAbsent, alias, calls>>
    /\ IF res # "ok"
         THEN /\ gpc' = "done"
              /\ outcome' = Error(<<"Failed to upload source image to ComfyUI: ">> \o UploadErrorMsg(res))
              /\ UNCHANGED <<workflow, payload, uploads, http>>
         ELSE LET wf == SetInput(workflow, "78", "image", UploadedName(uploads[1]))
              IN  /\ outcome' = outcome
                  /\ IF opts.referenceImage # ""
                       THEN /\ workflow' = wf
                            /\ uploads' = Append(uploads, opts.referenceImage)
                            /\ http' = [http EXCEPT !.upload = @ + 1]
                            /\ gpc' = "upload_reference"
                            /\ UNCHANGED payload
                       ELSE LET done == FinishEditWorkflow(wf, opts.prompt, seed, "")
                            IN  /\ workflow' = done
                                /\ AfterBuild(ComfyPayload(done), opts.debugMode)
                                /\ UNCHANGED uploads
    /\ templates' = WriteThrough(templates, alias, workflow')

\* image_generator.js:648-662: the reference upload settles.
UploadReferenceDone(res) ==
    /\ gpc = "upload_reference"
    /\ UNCHANGED <<opts, providerType, seed, uploads, writes, response, retries, outputImages,
                   pending, wfFile, abortRequested, firstOutputAt, onlyAbsent, alias, calls>>
    /\ IF res # "ok"
         THEN /\ gpc' = "done"
              /\ outcome' = Error(<<"Failed to upload reference image to ComfyUI: ">> \o UploadErrorMsg(res))
              /\ UNCHANGED <<workflow, payload, http>>
         ELSE LET done == FinishEditWorkflow(
                              SetInput(workflow, "120", "image", UploadedName(uploads[2])),
                              opts.prompt, seed, opts.referenceImage)
              IN  /\ outcome' = outcome
                  /\ workflow' = done
                  /\ AfterBuild(ComfyPayload(done), opts.debugMode)
    /\ templates' = WriteThrough(templates, alias, workflow')

\* image_generator.js:695-725: loadWorkflowFile settles (null when there is no file).
LoadWorkflowDone ==
    /\ gpc = "load_workflow"
    /\ UNCHANGED <<opts, providerType, seed, uploads, writes, response, retries, outputImages,
                   pending, outcome, wfFile, abortRequested, firstOutputAt, onlyAbsent, calls>>
    /\ LET dim == GetPixelDimensions(opts.resolution, opts.aspectRatio)
           \* the graph is only ever read through JSON.stringify (request body, template file)
           width == JsonNumber(dim.width)
           height == JsonNumber(dim.height)
       IN  IF wfFile = None
             THEN /\ workflow' = BuiltinT2IWorkflow(templates.z, opts.prompt, width, height, seed)
                  /\ alias' = DeepCopy("z")
                  /\ templates' = WriteThrough(templates, alias', workflow')
                  /\ gpc' = "save_workflow"
                  /\ UNCHANGED <<payload, http>>
             ELSE LET wf == InjectParamsIntoWorkflow(wfFile[1], opts.prompt, width, height, seed)
                  IN  /\ workflow' = wf
                      /\ alias' = "none"
                      /\ templates' = templates
                      /\ AfterBuild(ComfyPayload(wf), opts.debugMode)

\* image_generator.js:720: saveWorkflowFile settles; it returns null when the write failed.
SaveWorkflowDone(ok) ==
    /\ gpc = "save_workflow"
    /\ wfFile' = IF ok THEN Some(workflow) ELSE wfFile
    /\ AfterBuild(ComfyPayload(workflow), opts.debugMode)
    /\ UNCHANGED <<opts, providerType, seed, workflow, uploads, writes, response, retries,
                   outputImages, pending, outcome, abortRequested, firstOutputAt, onlyAbsent>>


\* The body of a non-2xx reply, n characters long.
ErrorBody(n) == [k \in 1..n |-> IF k % 3 = 1 THEN "e" ELSE IF k % 3 = 2 THEN "r" ELSE "!"]

ErrorLens == {0, 3, HttpErrorTextLen - 1, HttpErrorTextLen, HttpErrorTextLen + 1, MaxErrLen}

\* image_generator.js:101, the message of the error raised for a non-2xx reply.
HttpErrorMsg_Untruncated(status, errorText) ==
    <<"HTTP Error: ", NumStr(status), " - ">> \o errorText

HttpErrorMsg(status, errorText) ==
    <<"HTTP Error: ", NumStr(status), " - ">> \o Substring0(errorText, HttpErrorTextLen)

\* image_generator.js:91-98, the text of the HTTP error log.
HttpErrorLog(o, ptype, status, errorText) ==
    <<"=== HTTP Error ===", "Provider: ">> \o o.provider[1].name
    \o <<"URL: ">> \o BuildApiUrl(o.provider[1], ptype)
    \o <<"Status: ", NumStr(status), "Response: ">> \o errorText

\* image_generator.js:119-128, the text of the generation error log.
GenerationErrorLog(o, ptype, msg) ==
    <<"=== Generation Error ===", "Provider: ">> \o o.provider[1].name \o <<ptype>>
    \o <<"Prompt: ">> \o o.prompt \o <<"Resolution: ", o.resolution, "Aspect Ratio: ", o.aspectRatio>>
    \o <<"Error: ">> \o msg

\* _processResponse for the five families that answer in the reply itself.
ParseResponse(ptype, body) ==
    CASE ptype \in {"google_official", "yunwu"} -> ProcessGeminiResponse(body)
      [] ptype = "gptgod" -> ProcessGPTGodResponse(body)
      [] ptype = "openrouter" -> ProcessOpenRouterResponse(body)
      [] ptype = "seedream" -> ProcessSeedreamResponse(body)

ProcessResponse_NoJobIdCheck(body) ==
    IF providerType = "comfyui"
      THEN /\ gpc' = "poll_sleep"
           /\ retries' = 0
           /\ UNCHANGED <<http, pending, outcome>>
      ELSE LET r == ParseResponse(providerType, body)
           IN  IF r.kind = "throw"
                 THEN /\ Catch(r.msg)
                      /\ UNCHANGED <<http, retries>>
               ELSE IF r.kind = "base64"
                 THEN /\ gpc' = "save_image"
                      /\ UNCHANGED <<http, retries, pending, outcome>>
               ELSE /\ gpc' = "download"
                    /\ http' = [http EXCEPT !.download = @ + 1]
                    /\ UNCHANGED <<retries, pending, outcome>>

\* image_generator.js:113, _processResponse(responseData, providerType, provider) up to its
\* first await: a file write, an image download, the first sleep of the poll loop, or a throw.
ProcessResponse(body) ==
    IF providerType = "comfyui"
      THEN IF body.prompt_id = <<>>
             THEN /\ Catch(<<"ComfyUI did not return a prompt_id">>)
                  /\ UNCHANGED <<http, retries>>
             ELSE /\ gpc' = "poll_sleep"
                  /\ retries' = 0
                  /\ UNCHANGED <<http, pending, outcome>>
      ELSE LET r == ParseResponse(providerType, body)
           IN  IF r.kind = "throw"
                 THEN /\ Catch(r.msg)
                      /\ UNCHANGED <<http, retries>>
               ELSE IF r.kind = "base64"
                 THEN /\ gpc' = "save_image"
                      /\ UNCHANGED <<http, retries, pending, outcome>>
               ELSE /\ gpc' = "download"
                    /\ http' = [http EXCEPT !.download = @ + 1]
                    /\ UNCHANGED <<retries, pending, outcome>>

\* image_generator.js:73: savePayload settles; the generation request is sent.
SavePayloadDone ==
    /\ gpc = "save_payload"
    /\ writes' = Append(writes, [kind |-> "payload", text |-> <<>>])
    /\ gpc' = "dispatch"
    /\ http' = [http EXCEPT !.submit = @ + 1]
    /\ UNCHANGED <<opts, providerType, seed, workflow, payload, uploads, response, retries,
                   outputImages, pending, outcome, wfFile, abortRequested, firstOutputAt, onlyAbsent>>

DispatchResults == {"network_error", "http_error", "bad_json", "ok"}

\* image_generator.js:78-113: the generation request settles.
DispatchDone(res, status, errLen, body) ==
    /\ gpc = "dispatch"
    /\ UNCHANGED <<opts, providerType, seed, workflow, payload, uploads, writes, outputImages,
                   wfFile, abortRequested, firstOutputAt, onlyAbsent>>
    /\ CASE res = "network_error" ->
              /\ Catch(<<"Network request failed">>)
              /\ UNCHANGED <<response, http, retries>>
         [] res = "bad_json" ->
              /\ response' = [NoResponse EXCEPT !.status = 200]
              /\ Catch(<<"Unexpected token < in JSON">>)
              /\ UNCHANGED <<http, retries>>
         [] res = "http_error" ->
              /\ response' = [status |-> status, errorText |-> ErrorBody(errLen), body |-> EmptyBody]
              /\ IF opts.debugMode
                   THEN /\ gpc' = "save_http_log"
                        /\ UNCHANGED <<pending, outcome>>
                   ELSE Catch(HttpErrorMsg(status, ErrorBody(errLen)))
              /\ UNCHANGED <<http, retries>>
         [] res = "ok" ->
              /\ response' = [status |-> 200, errorText |-> <<>>, body |-> body]
              /\ IF opts.debugMode
                   THEN /\ gpc' = "save_response"
                        /\ UNCHANGED <<http, retries, pending, outcome>>
                   ELSE ProcessResponse(body)

\* image_generator.js:91-101: saveLog of the HTTP error settles; the error is thrown
\* into the catch block (debugMode is on here, so the catch block logs again).
SaveHttpLogDone ==
    /\ gpc = "save_http_log"
    /\ writes' = Append(writes, [kind |-> "log",
                                 text |-> HttpErrorLog(opts, providerType, response.status, response.errorText)])
    /\ Catch(HttpErrorMsg(response.status, response.errorText))
    /\ UNCHANGED <<opts, providerType, seed, workflow, payload, uploads, http, response, retries,
                   outputImages, wfFile, abortRequested, firstOutputAt, onlyAbsent>>

\* image_generator.js:109-113: saveResponse settles; the reply is processed.
SaveResponseDone ==
    /\ gpc = "save_response"
    /\ writes' = Append(writes, [kind |-> "response", text |-> <<>>])
    /\ ProcessResponse(response.body)
    /\ UNCHANGED <<opts, providerType, seed, workflow, payload, uploads, response, outputImages,
                   wfFile, abortRequested, firstOutputAt, onlyAbsent>>

\* fileManager.saveImageFromBase64 settles.
ImageSaved(ok) ==
    /\ gpc = "save_image"
    /\ IF ok
         THEN /\ gpc' = "done"
              /\ outcome' = [kind |-> "file", msg |-> <<>>]
              /\ UNCHANGED pending
         ELSE Catch(<<"Failed to write image file">>)
    /\ UNCHANGED <<opts, providerType, seed, workflow, payload, uploads, http, writes, response,
                   retries, outputImages, wfFile, abortRequested, firstOutputAt, onlyAbsent>>

\* fileManager.downloadImage (the final image fetch) settles.
DownloadDone(ok) ==
    /\ gpc = "download"
    /\ IF ok
         THEN /\ gpc' = "done"
              /\ outcome' = [kind |-> "file", msg |-> <<>>]
              /\ UNCHANGED pending
         ELSE Catch(<<"Failed to download image">>)
    /\ UNCHANGED <<opts, providerType, seed, workflow, payload, uploads, http, writes, response,
                   retries, outputImages, wfFile, abortRequested, firstOutputAt, onlyAbsent>>

\* image_generator.js:1121-1126: the one-second timer of the poll loop fires and the
\* history request is sent.
PollTimer ==
    /\ gpc = "poll_sleep"
    /\ gpc' = "poll_fetch"
    /\ http' = [http EXCEPT !.poll = @ + 1]
    /\ UNCHANGED <<opts, providerType, seed, workflow, payload, uploads, writes, response, retries,
                   outputImages, pending, outcome, wfFile, abortRequested, firstOutputAt, onlyAbsent>>

\* What a history request can come back with: no entry for the job, an entry with
\* an image output, an entry without one, a non-2xx reply, a rejected fetch.
PollResults == {"absent", "present_outputs", "present_empty", "http_error", "network_error"}

OutputDescriptor == [filename |-> "PSBanana_00001_.png", subfolder |-> "", type |-> "output"]

TimeoutMsg == <<"ComfyUI generation timed out or returned no images.">>

\* image_generator.js:1131-1146: with outputs found the loop is left (`break`) and
\* the image is fetched from /view.
AfterOutputs_KeepPolling == "poll_sleep"

AfterOutputs == "download"

\* image_generator.js:1121, the loop test `retries < maxRetries`.
LoopContinues_GivesUp(n) == FALSE

LoopContinues_NoBudget(n) == TRUE

LoopContinues(n) == n < MaxRetries

\* image_generator.js:1128-1159: the history request settles.
PollResponse(res) ==
    /\ gpc = "poll_fetch"
    /\ UNCHANGED <<opts, providerType, seed, workflow, payload, uploads, writes, response, wfFile,
                   abortRequested>>
    /\ CASE res = "present_outputs" ->
              /\ outputImages' = Some(OutputDescriptor)
              /\ firstOutputAt' = http.poll
              /\ gpc' = AfterOutputs
              /\ http' = [http EXCEPT !.download = @ + 1]
              /\ UNCHANGED <<retries, pending, outcome, onlyAbsent>>
         [] res = "present_empty" ->
              /\ Catch(TimeoutMsg)
              /\ onlyAbsent' = FALSE
              /\ UNCHANGED <<http, retries, outputImages, firstOutputAt>>
         [] OTHER ->
              /\ retries' = retries + 1
              /\ onlyAbsent' = (onlyAbsent /\ res = "absent")
              /\ IF LoopContinues(retries + 1)
                   THEN /\ gpc' = "poll_sleep"
                        /\ UNCHANGED <<pending, outcome>>
                   ELSE Catch(TimeoutMsg)
              /\ UNCHANGED <<http, outputImages, firstOutputAt>>

\* image_generator.js:119-131: saveLog in the catch block settles; the wrapped error is raised.
SaveErrorLogDone ==
    /\ gpc = "save_error_log"
    /\ writes' = Append(writes, [kind |-> "log", text |-> GenerationErrorLog(opts, providerType, pending)])
    /\ gpc' = "done"
    /\ outcome' = Error(Wrap(pending))
    /\ UNCHANGED <<opts, providerType, seed, workflow, payload, uploads, http, response, retries,
                   outputImages, pending, wfFile, abortRequested, firstOutputAt, onlyAbsent>>

\* The host asks to abort the generation while the poll loop runs.  generate takes
\* no cancellation signal (image_generator.js:27-39): nothing in it reads the request.
RequestAbort ==
    /\ gpc \in {"poll_sleep", "poll_fetch"}
    /\ ~abortRequested
    /\ abortRequested' = TRUE
    /\ UNCHANGED <<gpc, opts, providerType, seed, workflow, payload, uploads, http, writes, response,
                   retries, outputImages, pending, outcome, wfFile, firstOutputAt, onlyAbsent>>

\* ========================================================= specifications
Init == HostInit /\ GenInit /\ FnIdle

\* The generate call of image_generator.js, one call from start to end.
Next ==
    \/ \E o \in OptionSet : Generate(o) /\ UNCHANGED <<hostVars, fnVars>>
    \/ \E res \in UploadResults : UploadSourceDone(res) /\ UNCHANGED <<hostVars, fnVars>>
    \/ \E res \in UploadResults : UploadReferenceDone(res) /\ UNCHANGED <<hostVars, fnVars>>
    \/ LoadWorkflowDone /\ UNCHANGED <<hostVars, fnVars>>
    \/ \E ok \in BOOLEAN : SaveWorkflowDone(ok) /\ UNCHANGED <<hostVars, fnVars, tplVars>>
    \/ SavePayloadDone /\ UNCHANGED <<hostVars, fnVars, tplVars>>
    \/ \E res \in DispatchResults, status \in {400, 500}, n \in ErrorLens, body \in BodiesOf(providerType) :
          DispatchDone(res, status, n, body) /\ UNCHANGED <<hostVars, fnVars, tplVars>>
    \/ SaveHttpLogDone /\ UNCHANGED <<hostVars, fnVars, tplVars>>
    \/ SaveResponseDone /\ UNCHANGED <<hostVars, fnVars, tplVars>>
    \/ \E ok \in BOOLEAN : ImageSaved(ok) /\ UNCHANGED <<hostVars, fnVars, tplVars>>
    \/ \E ok \in BOOLEAN : DownloadDone(ok) /\ UNCHANGED <<hostVars, fnVars, tplVars>>
    \/ PollTimer /\ UNCHANGED <<hostVars, fnVars, tplVars>>
    \/ \E res \in PollResults : PollResponse(res) /\ UNCHANGED <<hostVars, fnVars, tplVars>>
    \/ SaveErrorLogDone /\ UNCHANGED <<hostVars, fnVars, tplVars>>

Spec == Init /\ [][Next]_vars

\* Calls of generate that reach the graph executor's poll loop.
PollOptionSet ==
    { Options(Some(PComfy), p, "16:9", "2K", d, m, FALSE, "", "SRC", "REF") :
        p \in Prompts, d \in BOOLEAN, m \in {"text2img", "imgedit"} }

\* A generate call to the graph executor, with a host that may ask to abort it
\* while the poll loop runs.
NextPoll ==
    \/ \E o \in PollOptionSet : Generate(o) /\ UNCHANGED <<hostVars, fnVars>>
    \/ \E res \in UploadResults : UploadSourceDone(res) /\ UNCHANGED <<hostVars, fnVars>>
    \/ \E res \in UploadResults : UploadReferenceDone(res) /\ UNCHANGED <<hostVars, fnVars>>
    \/ LoadWorkflowDone /\ UNCHANGED <<hostVars, fnVars>>
    \/ \E ok \in BOOLEAN : SaveWorkflowDone(ok) /\ UNCHANGED <<hostVars, fnVars, tplVars>>
    \/ SavePayloadDone /\ UNCHANGED <<hostVars, fnVars, tplVars>>
    \/ \E res \in DispatchResults, status \in {500}, n \in {3}, body \in BodiesOf(providerType) :
          DispatchDone(res, status, n, body) /\ UNCHANGED <<hostVars, fnVars, tplVars>>
    \/ SaveHttpLogDone /\ UNCHANGED <<hostVars, fnVars, tplVars>>
    \/ SaveResponseDone /\ UNCHANGED <<hostVars, fnVars, tplVars>>
    \/ \E ok \in BOOLEAN : DownloadDone(ok) /\ UNCHANGED <<hostVars, fnVars, tplVars>>
    \/ PollTimer /\ UNCHANGED <<hostVars, fnVars, tplVars>>
    \/ \E res \in PollResults : PollResponse(res) /\ UNCHANGED <<hostVars, fnVars, tplVars>>
    \/ SaveErrorLogDone /\ UNCHANGED <<hostVars, fnVars, tplVars>>
    \/ RequestAbort /\ UNCHANGED <<hostVars, fnVars, tplVars>>

SpecPoll == Init /\ [][NextPoll]_vars

\* The panel's handlers of main.js; the generator is seen only through what
\* imageGenerator.generate returns or raises.
NextHost ==
    \/ \E i \in Invocations, doc \in BOOLEAN, prompt \in BOOLEAN, provider \in BOOLEAN, dbg \in BOOLEAN :
          handleGenerateImage(i, doc, prompt, provider, dbg) /\ UNCHANGED <<genVars, fnVars>>
    \/ \E i \in Invocations, ok \in BOOLEAN : GeneratePromptSaved(i, ok) /\ UNCHANGED <<genVars, fnVars>>
    \/ \E i \in Invocations, ok \in BOOLEAN : GenerateExported(i, ok) /\ UNCHANGED <<genVars, fnVars>>
    \/ \E i \in Invocations, res \in {"file", "invalid", "error"} : GenerateReturned(i, res) /\ UNCHANGED <<genVars, fnVars>>
    \/ \E i \in Invocations, ok \in BOOLEAN : GenerateImported(i, ok) /\ UNCHANGED <<genVars, fnVars>>
    \/ \E i \in Invocations : GenerateLogged(i) /\ UNCHANGED <<genVars, fnVars>>
    \/ \E i \in Invocations : handleTestImport(i) /\ UNCHANGED <<genVars, fnVars>>
    \/ \E i \in Invocations, res \in {"token", "none", "error"} : TestImportToken(i, res) /\ UNCHANGED <<genVars, fnVars>>
    \/ \E i \in Invocations, ok \in BOOLEAN : TestImportDone(i, ok) /\ UNCHANGED <<genVars, fnVars>>
    \/ \E i \in Invocations : handleTestExport(i) /\ UNCHANGED <<genVars, fnVars>>
    \/ \E i \in Invocations, ok \in BOOLEAN : TestExportDone(i, ok) /\ UNCHANGED <<genVars, fnVars>>
    \/ \E i \in Invocations, doc \in BOOLEAN : handleEnsureGroups(i, doc) /\ UNCHANGED <<genVars, fnVars>>
    \/ \E i \in Invocations, ok \in BOOLEAN : EnsureGroupsDone(i, ok) /\ UNCHANGED <<genVars, fnVars>>
    \/ \E i \in Invocations : handleSmartCanvasRatio(i) /\ UNCHANGED <<genVars, fnVars>>
    \/ \E i \in Invocations, ok \in BOOLEAN : SmartCanvasRatioDone(i, ok) /\ UNCHANGED <<genVars, fnVars>>

SpecHost == Init /\ [][NextHost]_vars

\* ------------------------------------------------ pure functions, called
\* Names and base URLs a profile may carry: missing, empty, each marker in
\* either field, upper case, and two markers at once.
ClassifierNames ==
    {None, Some(<<>>), Some(<<"Gemini">>), Some(<<"Yunwu">>), Some(<<"GPTGod">>),
     Some(<<"My ", "OpenRouter">>), Some(<<"SEEDREAM">>), Some(<<"Local ", "ComfyUI">>),
     Some(<<"Seedream", " via ", "GPTGod">>), Some(<<"custom">>)}

ClassifierUrls ==
    {None, Some(<<>>), Some(<<"https://", "generativelanguage.googleapis.com", "/v1beta">>),
     Some(<<"https://", "ark.cn-beijing.volces.com", "/api/v3">>),
     Some(<<"https://api.", "gptgod.online", "/v1/chat/completions">>),
     Some(<<"HTTPS://", "OPENROUTER.AI", "/api/v1">>),
     Some(<<"http://127.0.0.1", ":8188">>), Some(<<"https://yunwu.zeabur.app/v1beta">>)}

\* One call of _detectProviderType and of detectProviderType on the same pair.
DetectCall ==
    /\ fnOp = "detect"
    /\ Len(fnOut) < 2
    /\ fnOut' = Append(fnOut,
                       [method |-> DetectProviderType([name |-> OrEmpty(fnIn.name),
                                                       baseUrl |-> OrEmpty(fnIn.baseUrl)]),
                        table |-> DetectProviderTypeOf(fnIn.name, fnIn.baseUrl)])
    /\ UNCHANGED <<fnOp, fnIn>>

\* Resolution tiers (and an unset one) and ratio strings, usual and degenerate.
Resolutions == {"1K", "2K", "4K", ""}

RatioStrings ==
    {"1:1", "16:9", "9:16", "4:3", "3:4", "21:9", "3:2", "2:3",
     "0:1", "1:0", ":", "-1:1", "a:b", "abc", "", "100000:1"}

\* One call of _getPixelDimensions.
PixelDimensionsCall ==
    /\ fnOp = "pixels"
    /\ fnOut = <<>>
    /\ fnOut' = <<GetPixelDimensions(fnIn.resolution, fnIn.aspectRatio)>>
    /\ UNCHANGED <<fnOp, fnIn>>

\* _uploadImageToComfyUI(base64Image, baseUrl), image_generator.js:741-781: the request
\* it builds.  Byte buffers are binary strings, one character per byte, as atob and
\* charCodeAt treat them; image is atob(base64Image).
\* rnd is Math.random().toString(36).substring(2) and now is String(Date.now()).
Boundary(rnd) == "----BananaBoundary" \o rnd

UploadFilename(now) == "ps_banana_input_" \o now \o ".png"

PreAmble(boundary, filename) ==
    "--" \o boundary \o "\r\n"
    \o "Content-Disposition: form-data; name=\"image\"; filename=\"" \o filename \o "\"\r\n"
    \o "Content-Type: image/png\r\n\r\n"

PostAmble(boundary) == "\r\n--" \o boundary \o "--\r\n"

FullBody(image, boundary, filename) ==
    PreAmble(boundary, filename) \o image \o PostAmble(boundary)

UploadContentType(boundary) == "multipart/form-data; boundary=" \o boundary

\* Outcomes of Math.random(): 0 ("0" in base 36, nothing after the point), 0.5 ("0.i"),
\* and an ordinary value.
RandomSuffixes == {"", "i", "4fzyo82mvyr"}

Clock == {"1700000000000"}

ImageBytes ==
    {"", "PNG", "PNG\r\n\r\nIDAT", "--", "\r\n--", "\"x.png\"",
     "\r\n------BananaBoundary",
     "AB\r\n------BananaBoundary--\r\n",
     "AB\r\n------BananaBoundaryi\r\nCD",
     "AB\r\n------BananaBoundary4fzyo82mvyr--\r\nCD"}

\* One call of _uploadImageToComfyUI up to its fetch.
UploadBodyCall ==
    /\ fnOp = "upload"
    /\ fnOut = <<>>
    /\ LET boundary == Boundary(fnIn.rnd)
           filename == UploadFilename(fnIn.now)
       IN  fnOut' = <<[filename |-> filename,
                       contentType |-> UploadContentType(boundary),
                       body |-> FullBody(fnIn.image, boundary, filename)]>>
    /\ UNCHANGED <<fnOp, fnIn>>

InitFn ==
    /\ HostInit /\ GenInit
    /\ fnOut = <<>>
    /\ \/ /\ fnOp = "detect"
          /\ fnIn \in [name : ClassifierNames, baseUrl : ClassifierUrls]
       \/ /\ fnOp = "pixels"
          /\ fnIn \in [resolution : Resolutions, aspectRatio : RatioStrings]
       \/ /\ fnOp = "upload"
          /\ fnIn \in [image : ImageBytes, rnd : RandomSuffixes, now : Clock]

NextFn ==
    \/ DetectCall /\ UNCHANGED <<hostVars, genVars>>
    \/ PixelDimensionsCall /\ UNCHANGED <<hostVars, genVars>>
    \/ UploadBodyCall /\ UNCHANGED <<hostVars, genVars>>

SpecFn == InitFn /\ [][NextFn]_vars

\* ------------------------------------------------ consecutive generate calls
\* Number of generate calls, one after the other, the model follows.
MaxCalls == 2

P1 == <<"a red fox">>
P2 == <<"a blue bird">>

\* A template file a user wrote: a checkpoint loader, a 512x768 latent, its own prompts.
USER_WORKFLOW ==
    ("4" :> [class_type |-> "CheckpointLoaderSimple", inputs |-> [ckpt_name |-> "dreamshaper_8.safetensors"]])
 @@ ("5" :> [class_type |-> "EmptyLatentImage", inputs |-> [width |-> 512, height |-> 768, batch_size |-> 1]])
 @@ ("6" :> [class_type |-> "CLIPTextEncode", inputs |-> [clip |-> Ref("4", 1), text |-> <<"a castle">>]])
 @@ ("7" :> [class_type |-> "CLIPTextEncode", inputs |-> [clip |-> Ref("4", 1), text |-> <<"text, watermark">>]])
 @@ ("3" :> [class_type |-> "KSampler",
             inputs |-> [cfg |-> 8, denoise |-> 1, latent_image |-> Ref("5", 0), model |-> Ref("4", 0),
                         negative |-> Ref("7", 0), positive |-> Ref("6", 0),
                         sampler_name |-> "euler", scheduler |-> "normal", seed |-> 1, steps |-> 20]])
 @@ ("8" :> [class_type |-> "VAEDecode", inputs |-> [samples |-> Ref("3", 0), vae |-> Ref("4", 2)]])
 @@ ("9" :> [class_type |-> "SaveImage", inputs |-> [filename_prefix |-> "ComfyUI", images |-> Ref("8", 0)]])

SeqOptionSet ==
    { Options(Some(PComfy), p, "16:9", "2K", FALSE, "text2img", FALSE, "", "", "") : p \in {P1, P2} }
    \cup
    { Options(Some(PComfy), p, "16:9", "2K", FALSE, "imgedit", FALSE, "", "SRC", r) :
        p \in {P1, P2}, r \in {"", "REF"} }

\* generate has returned or raised and is called again: the locals of the call are gone,
\* the module-level templates and the files on disk stay.
CallReturned ==
    /\ gpc = "done"
    /\ calls + 1 < MaxCalls
    /\ calls' = calls + 1
    /\ gpc' = "idle"
    /\ opts' = NoOptions
    /\ providerType' = ""
    /\ seed' = 0
    /\ workflow' = <<>>
    /\ alias' = "none"
    /\ payload' = None
    /\ uploads' = <<>>
    /\ http' = NoHttp
    /\ response' = NoResponse
    /\ retries' = 0
    /\ outputImages' = None
    /\ pending' = <<>>
    /\ outcome' = NoOutcome
    /\ abortRequested' = FALSE
    /\ firstOutputAt' = 0
    /\ onlyAbsent' = TRUE
    /\ UNCHANGED <<writes, wfFile, templates>>

InitSeq ==
    /\ HostInit /\ GenInitCall /\ FnIdle
    /\ wfFile \in {None, Some(USER_WORKFLOW)}

\* Calls to the graph executor, one after the other, without debug capture; the executor
\* answers the first history poll.
NextSeq ==
    \/ \E o \in SeqOptionSet : Generate(o) /\ UNCHANGED <<hostVars, fnVars>>
    \/ \E res \in UploadResults : UploadSourceDone(res) /\ UNCHANGED <<hostVars, fnVars>>
    \/ \E res \in UploadResults : UploadReferenceDone(res) /\ UNCHANGED <<hostVars, fnVars>>
    \/ LoadWorkflowDone /\ UNCHANGED <<hostVars, fnVars>>
    \/ \E ok \in BOOLEAN : SaveWorkflowDone(ok) /\ UNCHANGED <<hostVars, fnVars, tplVars>>
    \/ \E res \in {"network_error", "ok"}, body \in BodiesOf(providerType) :
          DispatchDone(res, 500, 3, body) /\ UNCHANGED <<hostVars, fnVars, tplVars>>
    \/ PollTimer /\ UNCHANGED <<hostVars, fnVars, tplVars>>
    \/ \E res \in {"present_outputs", "present_empty"} :
          PollResponse(res) /\ UNCHANGED <<hostVars, fnVars, tplVars>>
    \/ \E ok \in BOOLEAN : DownloadDone(ok) /\ UNCHANGED <<hostVars, fnVars, tplVars>>
    \/ CallReturned /\ UNCHANGED <<hostVars, fnVars>>

SpecSeq == InitSeq /\ [][NextSeq]_vars

\* The poll loop under fair scheduling: the one-second timer fires and every
\* request settles (with a reply or a rejection), so an enabled step is taken.
SpecPollFair == SpecPoll /\ WF_vars(NextPoll)

\* ================================================================= claims
\* ---- C1
C1_InFlight == {i \in Invocations : hkind[i] = "generate" /\ hpc[i] \in GenerationPcs}

C1_Inv ==
    /\ Cardinality(C1_InFlight) <= 1
    /\ C1_InFlight # {} => isGenerating
    /\ \A i \in Invocations : hpc[i] = "rejected" => generateCalls[i] = 0

C1_Step ==
    \A i \in Invocations :
        /\ (hpc[i] = "idle" /\ hkind'[i] = "generate" /\ C1_InFlight # {})
              => /\ hpc'[i] = "rejected"
                 /\ isGenerating' = isGenerating
                 /\ generateCalls' = generateCalls
                 /\ \A j \in Invocations \ {i} : hpc'[j] = hpc[j] /\ hkind'[j] = hkind[j]
        /\ hpc[i] = "rejected" => hpc'[i] = "rejected" /\ generateCalls'[i] = 0

C2_Polling == gpc \in {"poll_sleep", "poll_fetch"}

C2_Inv ==
    /\ http.poll <= 300
    /\ retries <= 300
    /\ retries = 300 => ~C2_Polling
    /\ (gpc = "done" /\ http.poll > 0 /\ outputImages = None)
          => outcome = [kind |-> "error",
                        msg |-> <<"Generation failed: ",
                                  "ComfyUI generation timed out or returned no images.">>]

\* C2: the poll loop issues at most 300 history requests; a call whose polls never
\* found output ends with the timeout error; and once in the loop the call always ends.
C2_PollerTerminates == []C2_Inv /\ (C2_Polling ~> gpc = "done")

\* C2 case: 300 polls, none of which found an entry for the job, and the call is over.
C2_Witness ==
    /\ gpc = "done" /\ http.poll = 300 /\ retries = 300 /\ onlyAbsent
    /\ outcome.kind = "error" /\ outputImages = None

\* ---- C3
C3_Inv ==
    /\ outputImages # None
          => /\ outputImages = <<[filename |-> "PSBanana_00001_.png", subfolder |-> "", type |-> "output"]>>
             /\ firstOutputAt # 0
             /\ http.poll = firstOutputAt
             /\ retries = firstOutputAt - 1
             /\ http.download = 1
             /\ ~C2_Polling
    /\ outputImages = None => firstOutputAt = 0
    /\ outcome.kind = "file" => http.poll = firstOutputAt

C3_Step ==
    /\ firstOutputAt # 0
          => http'.poll = http.poll /\ firstOutputAt' = firstOutputAt /\ outputImages' = outputImages
    /\ (firstOutputAt = 0 /\ firstOutputAt' # 0)
          => firstOutputAt' = http.poll /\ http'.poll = http.poll /\ retries' = retries

\* C3: when the k-th history reply is the first to hold an output descriptor (the
\* k-1 replies before it held no entry for the job), the loop is left with that
\* descriptor after exactly k polls and k-1 retries, and no poll follows.
C3_ReturnsAtFirstOutput == []C3_Inv /\ [][C3_Step]_vars

\* C3 case: job "42", three replies without an entry, outputs on the 4th, image returned.
C3_Witness ==
    /\ response.body.prompt_id = <<"42">>
    /\ onlyAbsent /\ firstOutputAt = 4 /\ http.poll = 4
    /\ outputImages # None /\ gpc = "done" /\ outcome.kind = "file"

\* ---- C4
C4_Malformed ==
    \/ opts.provider = None
    \/ opts.provider[1].apiKey = <<>>
    \/ opts.provider[1].baseUrl = <<>>

\* C4: a call whose provider is missing, or has an empty apiKey or baseUrl, ends at
\* once with "Invalid provider configuration": no provider type was detected, no
\* payload built, no upload or other request issued, nothing written.
C4_ConfigRejectedFirst ==
    (gpc # "idle" /\ C4_Malformed)
       => /\ gpc = "done"
          /\ outcome = [kind |-> "error", msg |-> <<"Invalid provider configuration">>]
          /\ providerType = "" /\ payload = <<>> /\ uploads = <<>> /\ writes = <<>>
          /\ http = [upload |-> 0, submit |-> 0, poll |-> 0, download |-> 0]

\* C4 case: a profile with an apiKey but no baseUrl, debugMode on, image-edit mode.
C4_Witness ==
    /\ gpc = "done" /\ opts.provider # None /\ opts.provider[1].baseUrl = <<>>
    /\ opts.provider[1].apiKey # <<>> /\ opts.debugMode /\ opts.mode = "imgedit"
    /\ opts.sourceImage # ""

\* ---- C5
\* The reply body embeds the explanatory text somewhere.
C5_EmbedsRefusal(body) ==
    \/ body.error # None /\ Contains(body.error[1], Refusal)
    \/ body.detail = Some(Refusal)
    \/ /\ body.candidates # None /\ body.candidates[1] # <<>>
       /\ body.candidates[1][1].content # None
       /\ \E k \in DOMAIN body.candidates[1][1].content[1].parts :
              body.candidates[1][1].content[1].parts[k] = TextPart(Refusal)
    \/ /\ body.choices # None /\ body.choices[1] # <<>>
       /\ body.choices[1][1].message.content = Refusal

\* C5 as stated: after any 200 reply that holds the explanatory text and no
\* image, the error generate raises contains that text verbatim.
C5_RefusalSurfaced ==
    (gpc = "done" /\ response.status = 200 /\ outcome.kind = "error" /\ http.poll = 0
       /\ http.download = 0 /\ C5_EmbedsRefusal(response.body))
       => Contains(outcome.msg, Refusal)

\* ---- C6
\* C6 as stated: every error generate raises after the configuration test starts
\* with the prefix the catch block of generate puts on it.
C6_AllFailuresWrapped ==
    (gpc = "done" /\ outcome.kind = "error" /\ ~C4_Malformed)
       => (outcome.msg # <<>> /\ outcome.msg[1] = "Generation failed: ")

\* ---- C7
C7_Status == IF response.status = 400 THEN "400" ELSE "500"

\* C7: after a non-2xx reply to the generation request the call makes no further
\* request (no poll, no download, no second submission), parses nothing, and ends
\* with "Generation failed: HTTP Error: <status> - " followed by the first 200
\* characters of the reply body.
C7_HttpErrorSurfaced ==
    response.status \in {400, 500}
       => /\ gpc \in {"save_http_log", "save_error_log", "done"}
          /\ http.submit = 1 /\ http.poll = 0 /\ http.download = 0
          /\ http.upload = Len(uploads)
          /\ outputImages = None
          /\ gpc = "done"
                => /\ outcome.kind = "error"
                   /\ outcome.msg = <<"Generation failed: ", "HTTP Error: ", C7_Status, " - ">>
                        \o SubSeq(response.errorText, 1,
                                  IF Len(response.errorText) < 200 THEN Len(response.errorText) ELSE 200)

\* C7 case: status 500 with a 201-character body, of which 200 are reported.
C7_Witness ==
    /\ gpc = "done" /\ response.status = 500 /\ Len(response.errorText) = 201
    /\ Len(outcome.msg) = 204

\* ---- C8
\* C8 as stated: once the host has asked to abort, no further history request is issued.
C8_NoPollAfterAbort == [][abortRequested => http'.poll = http.poll]_vars

\* ---- C9
\* The images of a parts array / chat content array, in order.
C9_InlineImages(parts) ==
    LET inl == SelectSeq(parts, IsInlinePart)
    IN  [k \in 1..Len(inl) |-> inl[k].inlineData.data]

C9_EntryImages(content) ==
    LET img == SelectSeq(content, LAMBDA e : e.type = "image_url")
    IN  [k \in 1..Len(img) |-> img[k].image_url.url[4]]

\* The images a call transmits, in order (payload built).
C9_Transmitted ==
    CASE providerType \in {"google_official", "yunwu"} -> C9_InlineImages(payload[1].contents[1].parts)
      [] providerType \in {"gptgod", "openrouter"} -> C9_EntryImages(payload[1].messages[1].content)
      [] providerType = "seedream" ->
            IF payload[1].image = None THEN <<>> ELSE <<payload[1].image[1][4]>>
      [] providerType = "comfyui" -> uploads

C9_Case ==
    /\ payload # None
    /\ opts.mode = "imgedit" /\ opts.sourceImage # "" /\ opts.referenceImage # ""

\* C9 as stated: every family transmits the Reference image and then the Source image.
C9_ReferenceFirstEverywhere ==
    C9_Case => C9_Transmitted = <<opts.referenceImage, opts.sourceImage>>

\* C9 amended: the Gemini and chat builders transmit Reference then Source; the
\* Seedream builder transmits one image (inputImage if set, else Source) and never
\* the Reference; the ComfyUI builder uploads Source then Reference and wires
\* Source into node 78 (image1) and Reference into node 120 (image2).
C9_ReferenceFirstWhereSent ==
    C9_Case =>
      CASE providerType \in {"google_official", "yunwu", "gptgod", "openrouter"} ->
               C9_Transmitted = <<opts.referenceImage, opts.sourceImage>>
        [] providerType = "seedream" ->
               C9_Transmitted = <<IF opts.inputImage # "" THEN opts.inputImage ELSE opts.sourceImage>>
        [] providerType = "comfyui" ->
               /\ C9_Transmitted = <<opts.sourceImage, opts.referenceImage>>
               /\ payload[1].prompt["78"].inputs.image = UploadedName(opts.sourceImage)
               /\ payload[1].prompt["120"].inputs.image = UploadedName(opts.referenceImage)
               /\ payload[1].prompt["110"].inputs.image1 = Ref("93", 0)
               /\ payload[1].prompt["93"].inputs.image = Ref("78", 0)
               /\ payload[1].prompt["110"].inputs.image2 = Ref("120", 0)

\* C9 case: an image-edit call to ComfyUI with both images, payload built.
C9_Witness ==
    /\ C9_Case /\ providerType = "comfyui" /\ http.submit = 1
    /\ uploads = <<"SRC", "REF">>

\* ---- C10
C10_Content == payload[1].messages[1].content

\* C10 as stated: for both chat-completions builders, with Source and Reference set,
\* the content holds exactly two image entries, Reference then Source, and a text
\* entry with the annotations "[Attached Image 1: Reference]" and
\* "[Attached Image 2: Source]".
C10_TwoImagesAnnotated ==
    (payload # None /\ providerType \in {"gptgod", "openrouter"}
       /\ opts.sourceImage # "" /\ opts.referenceImage # "")
       => /\ C9_EntryImages(C10_Content) = <<opts.referenceImage, opts.sourceImage>>
          /\ \E k \in DOMAIN C10_Content :
                /\ C10_Content[k].type = "text"
                /\ Contains(C10_Content[k].text, <<"\n[Attached Image ", "1", ": Reference]">>)
                /\ Contains(C10_Content[k].text, <<"\n[Attached Image ", "2", ": Source]">>)

\* ---- C11
\* The protocol family of a provider type.
C11_Family(t) ==
    CASE t = "google_official" -> "gemini-native"
      [] t = "yunwu" -> "gemini-compatible"
      [] t \in {"gptgod", "openrouter"} -> "chat-completions"
      [] t = "seedream" -> "unified-image-endpoint"
      [] t = "comfyui" -> "graph-executor"
      [] OTHER -> "none"

C12_PositiveMultipleOf8(x) == x.k = "fin" /\ x.v > 0 /\ x.v % 8 = 0

\* C12 as stated: for every tier and every ratio string, degenerate ones included,
\* width and height are strictly positive integers divisible by 8.
C12_PositiveMultiplesOf8 ==
    (fnOp = "pixels" /\ fnOut # <<>>)
       => C12_PositiveMultipleOf8(fnOut[1].width) /\ C12_PositiveMultipleOf8(fnOut[1].height)

\* ---- C13
\* C13: a call with debugMode off writes no payload file, no response file and no
\* log file, at any point of any path.
C13_NoDebugNoWrites == (gpc # "idle" /\ ~opts.debugMode) => writes = <<>>

\* C13 case: debugMode off, a 500 reply, the call has failed and nothing was written;
C13_Witness ==
    /\ gpc = "done" /\ ~opts.debugMode /\ response.status = 500
    /\ outcome.kind = "error" /\ writes = <<>>

\* ---- C14
\* C14: no record written through the side channel during a generate call contains the
\* provider's apiKey.  (The payload builders never read apiKey and the reply is the
\* server's text, so their records carry none; the HTTP error log prints the request URL.)
C14_ApiKeyNeverWritten ==
    \A i \in DOMAIN writes :
        opts.provider # None => ~Contains(writes[i].text, opts.provider[1].apiKey)

\* ---- C15
\* A multipart/form-data decoder (RFC 2046, section 5.1.1): the boundary is read from the
\* Content-Type header; a part starts after a delimiter line, its headers end at the
\* first empty line, its body ends before the next CRLF-delimiter that is followed by
\* CRLF (another part) or by "--" (the close delimiter).
C15_IndexOf(s, pat, from) ==
    LET hits == {k \in from..(Len(s) - Len(pat) + 1) : SubSeq(s, k, k + Len(pat) - 1) = pat}
    IN  IF hits = {} THEN 0 ELSE CHOOSE k \in hits : \A j \in hits : k <= j

C15_HeaderBoundary(contentType) ==
    LET k == C15_IndexOf(contentType, "boundary=", 1)
    IN  SubSeq(contentType, k + 9, Len(contentType))

\* The first delimiter line at or after from: its position and whether it closes.
C15_NextDelimiter(buf, delim, from) ==
    LET line == "\r\n" \o delim
        n == Len(line)
        hits == {k \in from..(Len(buf) - n - 1) :
                    /\ SubSeq(buf, k, k + n - 1) = line
                    /\ SubSeq(buf, k + n, k + n + 1) \in {"\r\n", "--"}}
        k0 == CHOOSE k \in hits : \A j \in hits : k <= j
    IN  IF hits = {} THEN [at |-> 0, close |-> TRUE, next |-> 0]
        ELSE [at |-> k0, close |-> SubSeq(buf, k0 + n, k0 + n + 1) = "--", next |-> k0 + n + 2]

RECURSIVE C15_PartsFrom(_, _, _)
C15_PartsFrom(buf, delim, pos) ==
    LET hEnd == C15_IndexOf(buf, "\r\n\r\n", pos)
        d == C15_NextDelimiter(buf, delim, hEnd + 4)
        part == [headers |-> SubSeq(buf, pos, hEnd - 1), body |-> SubSeq(buf, hEnd + 4, d.at - 1)]
    IN  IF hEnd = 0 \/ d.at = 0 THEN <<[headers |-> "malformed", body |-> ""]>>
        ELSE IF d.close THEN <<part>>
        ELSE <<part>> \o C15_PartsFrom(buf, delim, d.next)

C15_Decode(contentType, buf) ==
    LET delim == "--" \o C15_HeaderBoundary(contentType)
        first == delim \o "\r\n"
    IN  IF SubSeq(buf, 1, Len(first)) = first
          THEN C15_PartsFrom(buf, delim, Len(first) + 1)
          ELSE <<>>

C15_Filename(headers) ==
    LET k == C15_IndexOf(headers, "filename=\"", 1)
        e == C15_IndexOf(headers, "\"", k + 10)
    IN  IF k = 0 \/ e = 0 THEN "" ELSE SubSeq(headers, k + 10, e - 1)

\* C15: decoding the buffer the uploader built, with the boundary of its Content-Type
\* header, gives exactly one part, whose body is the image and whose filename is the
\* generated one.
C15_MultipartRoundTrip ==
    (fnOp = "upload" /\ fnOut # <<>>) =>
        LET parts == C15_Decode(fnOut[1].contentType, fnOut[1].body)
        IN  /\ Len(parts) = 1
            /\ parts[1].body = fnIn.image
            /\ C15_Filename(parts[1].headers) = fnOut[1].filename

\* The round trip on the images that hold no delimiter line of the call's boundary.
C15_RoundTripWithoutDelimiter ==
    (fnOp = "upload" /\ fnOut # <<>>
       /\ C15_NextDelimiter(fnIn.image \o "\r\n", "--" \o Boundary(fnIn.rnd), 1).at = 0)
      => LET parts == C15_Decode(fnOut[1].contentType, fnOut[1].body)
         IN  /\ Len(parts) = 1
             /\ parts[1].body = fnIn.image
             /\ C15_Filename(parts[1].headers) = fnOut[1].filename

\* ---- C16
\* The inputs of a node that take another node's output (null or a [node, slot] link).
C16_Sockets(class_type) ==
    CASE class_type \in {"LoraLoaderModelOnly", "ModelSamplingAuraFlow", "CFGNorm"} -> {"model"}
      [] class_type = "ImageScaleToTotalPixels" -> {"image"}
      [] class_type = "VAEEncode" -> {"pixels", "vae"}
      [] class_type = "TextEncodeQwenImageEditPlus" -> {"clip", "vae", "image1", "image2", "image3"}
      [] class_type = "KSampler" -> {"latent_image", "model", "negative", "positive"}
      [] class_type = "VAEDecode" -> {"samples", "vae"}
      [] class_type = "SaveImage" -> {"images"}
      [] OTHER -> {}

\* The node ids the links of graph wf point to.
C16_LinkTargets(wf) ==
    {wf[id].inputs[f][1] :
        <<id, f>> \in {<<i, g>> \in (DOMAIN wf) \X {"model", "image", "pixels", "vae", "clip", "image1",
                                                  "image2", "image3", "latent_image", "negative",
                                                  "positive", "samples", "images"} :
                          /\ g \in C16_Sockets(wf[i].class_type) \cap DOMAIN wf[i].inputs
                          /\ wf[i].inputs[g] # None}}

C16_EditGraphBuilt ==
    /\ providerType = "comfyui" /\ opts.mode = "imgedit"
    /\ (opts.inputImage # "" \/ opts.sourceImage # "")
    /\ payload # None

\* C16: the image-edit graph built without a reference image has no node 120, no link
\* to node 120, and no link to any other node that is not in the graph.
C16_NoDanglingReference ==
    (C16_EditGraphBuilt /\ opts.referenceImage = "") =>
        LET wf == payload[1].prompt
        IN  /\ "120" \notin DOMAIN wf
            /\ "120" \notin C16_LinkTargets(wf)
            /\ C16_LinkTargets(wf) \subseteq DOMAIN wf

\* C16 case: an edit graph built and submitted without a reference image; the source
\* image node is still there and linked.
C16_Witness ==
    /\ C16_EditGraphBuilt /\ opts.referenceImage = "" /\ http.submit = 1
    /\ "78" \in C16_LinkTargets(payload[1].prompt)
    /\ "120" \notin DOMAIN payload[1].prompt

\* ---- C17
C17_Outstanding == {i \in Invocations : hkind[i] = "generate" /\ hpc[i] \in GenerationPcs}

C17_Step ==
    \A i \in Invocations :
        (hpc[i] = "idle" /\ hkind'[i] = "generate" /\ C17_Outstanding # {})
            => hpc'[i] # "rejected"

\* C17: a generation requested while another generation is outstanding is accepted,
\* not turned away.
C17_SimultaneousGenerations == [][C17_Step]_vars

\* ---- C18
C18_Step ==
    (gpc = "poll_fetch" /\ gpc' # "poll_fetch" /\ outputImages' = None /\ retries' < 300)
        => gpc' = "poll_sleep"

\* C18: a poll reply that brings no outputs (the job present with empty outputs
\* included) leaves the poll loop running while retry budget remains.
C18_EmptyOutputsKeepPolling == [][C18_Step]_vars

\* ---- C19
\* A poll that failed (rejected request, non-2xx reply) or found no entry for the job
\* counts one retry; with budget left the loop sleeps again and nothing is raised.
C19_Step ==
    (gpc = "poll_fetch" /\ retries' = retries + 1 /\ retries + 1 < 300)
        => gpc' = "poll_sleep" /\ outcome' = outcome /\ pending' = pending

\* When every poll of the call failed or found no entry (each counted one retry) and the
\* loop is over, the budget of 300 is used up.
C19_Inv ==
    (gpc \in {"save_error_log", "done"} /\ http.poll > 0 /\ retries = http.poll)
        => retries = 300

C20_PollsOnlyAfterSubmission ==
    (http.poll > 0 \/ gpc \in {"poll_sleep", "poll_fetch"})
        => /\ providerType = "comfyui"
           /\ http.submit = 1
           /\ response.status \in 200..299
           /\ response.body.prompt_id # <<>>

\* C20 case: the graph executor answered 200 without a job id; the call is over, failed,
\* and no poll was issued.
C20_Witness ==
    /\ providerType = "comfyui" /\ http.submit = 1
    /\ response.status = 200 /\ response.body.prompt_id = <<>>
    /\ gpc = "done" /\ outcome.kind = "error" /\ http.poll = 0

\* ---- C21
\* The awaits of a call at which one HTTP request is outstanding.
C21_Requesting == gpc \in {"upload_source", "upload_reference", "dispatch", "poll_fetch", "download"}

C21_Issued(h) == h.upload + h.submit + h.poll + h.download

C21_Inv ==
    /\ http.submit <= 1 /\ http.download <= 1
    /\ http.upload = Len(uploads)
    /\ http.submit > 0 => gpc \notin {"upload_source", "upload_reference"}
    /\ http.poll > 0 => http.submit = 1 /\ gpc # "dispatch"
    /\ http.download > 0 => gpc \notin {"dispatch", "poll_sleep", "poll_fetch"}
    /\ gpc \in {"upload_source", "upload_reference"} => http.submit = 0
    /\ gpc = "dispatch" => http.poll = 0 /\ http.download = 0

C21_Step ==
    /\ C21_Issued(http') - C21_Issued(http) \in {0, 1}
    /\ http'.upload >= http.upload /\ http'.submit >= http.submit
    /\ http'.poll >= http.poll /\ http'.download >= http.download
    /\ (C21_Requesting /\ C21_Issued(http') > C21_Issued(http)) => gpc' # gpc
    /\ http'.upload > http.upload => http.submit = 0
    /\ http'.submit > http.submit => http.poll = 0 /\ http.download = 0
    /\ http'.poll > http.poll => http.download = 0 /\ gpc = "poll_sleep"

\* C21: the requests of one call are issued one at a time and in the order uploads,
\* submission, history polls, image fetch; a request is issued only by the step that
\* follows the previous request settling, never while another one is outstanding.
C21_SingleSequence == []C21_Inv /\ [][C21_Step]_vars

\* C21 case: two uploads, the submission, three polls and the image fetch, all done.
C21_Witness ==
    /\ http = [upload |-> 2, submit |-> 1, poll |-> 3, download |-> 1]
    /\ gpc = "done" /\ outcome.kind = "file"

\* ---- C22
C22_Uploading == gpc \in {"upload_source", "upload_reference"}

\* The errors an upload that did not succeed may end the call with: the non-2xx reply
\* (status 500, body "disk full") or the rejected request.
C22_Failures ==
    {[kind |-> "error", msg |-> <<pre>> \o tail] :
        pre \in {"Failed to upload source image to ComfyUI: ",
                 "Failed to upload reference image to ComfyUI: "},
        tail \in {<<"Upload failed: ", "500", " - ", "disk full">>, <<"Network request failed">>}}

C22_Step ==
    (C22_Uploading /\ gpc' \notin {"upload_reference", "save_payload", "dispatch"})
        => /\ gpc' = "done"
           /\ outcome' \in C22_Failures
           /\ http' = http /\ uploads' = uploads

C22_Inv ==
    /\ C22_Uploading => http.submit = 0 /\ http.poll = 0
    /\ (gpc = "done" /\ outcome \in C22_Failures)
          => /\ http.submit = 0 /\ http.poll = 0 /\ http.download = 0
             /\ http.upload = Len(uploads)
             /\ \A i, j \in DOMAIN uploads : uploads[i] = uploads[j] => i = j

\* C22: an upload answered with a non-2xx status ends the call with an upload error
\* that carries the reply body; the image was sent once, no graph is submitted and no
\* history poll is made.
C22_UploadFailureEndsCall == []C22_Inv /\ [][C22_Step]_vars

\* C22 case: the source upload succeeded, the reference upload got 500 "disk full".
C22_Witness ==
    /\ gpc = "done" /\ http.upload = 2 /\ http.submit = 0 /\ http.poll = 0
    /\ outcome = [kind |-> "error",
                  msg |-> <<"Failed to upload reference image to ComfyUI: ",
                            "Upload failed: ", "500", " - ", "disk full">>]

\* ---- C23
C23_Inv ==
    /\ templates = [z |-> Z_IMAGE_TURBO_WORKFLOW, qwen |-> QWEN_IMAGE_EDIT_WORKFLOW]
    \* the graph of an image-edit call, before its first upload settles, is the template's
    /\ gpc = "upload_source" => workflow = QWEN_IMAGE_EDIT_WORKFLOW
    \* with a reference image the reference node and both links to it are in the graph
    /\ (gpc = "upload_reference" \/ (payload # None /\ opts.mode = "imgedit" /\ opts.referenceImage # ""))
          => /\ "120" \in DOMAIN workflow
             /\ workflow["110"].inputs.image2 = Ref("120", 0)
             /\ workflow["111"].inputs.image2 = Ref("120", 0)
    \* the built-in text-to-image graph differs from the template in the injected fields only
    /\ gpc = "save_workflow"
          => /\ DOMAIN workflow = DOMAIN Z_IMAGE_TURBO_WORKFLOW
             /\ \A id \in DOMAIN workflow \ {"41", "44", "45"} : workflow[id] = Z_IMAGE_TURBO_WORKFLOW[id]
             /\ workflow["45"].inputs.text = opts.prompt
             /\ workflow["44"].inputs.seed = seed

\* C23: at every point of every sequence of calls the built-in templates equal their
\* initial values, and every call builds its graph from the unmodified template.
C23_TemplatesNeverMutated == []C23_Inv

\* C23 case: a second call, image edit with a reference image, has built its graph.
C23_Witness ==
    /\ calls = 1 /\ opts.mode = "imgedit" /\ opts.referenceImage = "REF"
    /\ payload # None /\ http.submit = 1
    /\ "120" \in DOMAIN payload[1].prompt

\* ---- C24
C24_KeptFields == {"width", "height", "ckpt_name", "unet_name"}

C24_Step ==
    (gpc = "load_workflow" /\ wfFile # None)
        => /\ payload' # None
           /\ \A id \in DOMAIN wfFile[1] :
                 /\ id \in DOMAIN payload'[1].prompt
                 /\ \A f \in C24_KeptFields \cap DOMAIN wfFile[1][id].inputs :
                       payload'[1].prompt[id].inputs[f] = wfFile[1][id].inputs[f]

\* C24: when the template file on disk is used, the width, height and model-checkpoint
\* fields of its nodes have, in the submitted graph, the values they have in the file.
C24_ForeignFieldsKept == [][C24_Step]_vars

\* The model-checkpoint fields alone are kept.
C24_CheckpointStep ==
    (gpc = "load_workflow" /\ wfFile # None)
        => /\ payload' # None
           /\ \A id \in DOMAIN wfFile[1] :
                 /\ id \in DOMAIN payload'[1].prompt
                 /\ \A f \in {"ckpt_name", "unet_name"} \cap DOMAIN wfFile[1][id].inputs :
                       payload'[1].prompt[id].inputs[f] = wfFile[1][id].inputs[f]

C24_CheckpointKept == [][C24_CheckpointStep]_vars

\* ---- C25
\* The families in priority order, the last one being the fallback.
C25_Order == <<"gemini-native", "unified-image-endpoint", "chat-completions", "graph-executor",
               "gemini-compatible">>

\* The markers of a family found in the pair, whatever the letter case: the official
\* host name in the base URL; the aggregator's name or domain; a reseller's name or
\* domain; the local executor's keyword in the name or its port in the base URL.
C25_Matches(family, name, url) ==
    CASE family = "gemini-native" -> IncludesLower(url, "generativelanguage.googleapis.com")
      [] family = "unified-image-endpoint" ->
            IncludesLower(name, "seedream") \/ IncludesLower(url, "ark.cn-beijing.volces.com")
      [] family = "chat-completions" ->
            \/ IncludesLower(name, "gptgod") \/ IncludesLower(url, "gptgod")
            \/ IncludesLower(name, "openrouter") \/ IncludesLower(url, "openrouter.ai")
      [] family = "graph-executor" -> IncludesLower(name, "comfyui") \/ IncludesLower(url, ":8188")
      [] OTHER -> TRUE

C25_FamilyOf(t) ==
    CASE t = "google_official" -> "gemini-native"
      [] t = "seedream" -> "unified-image-endpoint"
      [] t \in {"gptgod", "openrouter"} -> "chat-completions"
      [] t = "comfyui" -> "graph-executor"
      [] t = "yunwu" -> "gemini-compatible"
      [] OTHER -> "none"

C25_Expected(name, url) ==
    C25_Order[CHOOSE k \in 1..5 :
                 /\ C25_Matches(C25_Order[k], name, url)
                 /\ \A j \in 1..(k - 1) : ~C25_Matches(C25_Order[j], name, url)]

C26_Text ==
    IF providerType \in {"google_official", "yunwu"}
      THEN SelectSeq(payload[1].contents[1].parts, IsTextPart)[1].text
      ELSE SelectSeq(payload[1].messages[1].content, LAMBDA e : e.type = "text")[1].text

\* Positions in text where image number n is given the role: "Image n is the <role>
\* Layer ..." or "[Attached Image n: <role>]".
C26_RoleAt(text, n, role) ==
    {k \in 1..(Len(text) - 2) :
        /\ text[k] \in {"Image ", "\n[Attached Image "}
        /\ text[k + 1] = NumStr(n)
        /\ text[k + 2] \in
             (IF role = "Reference"
                THEN {" is the Reference Layer (use this for style/content reference). ", ": Reference]"}
                ELSE {" is the Source Layer (the content to be modified). ", ": Source]"})}

\* Positions in text where the user prompt starts.
C26_PromptAt(text) ==
    {k \in 1..Len(text) : SubSeq(text, k, k + Len(opts.prompt) - 1) = opts.prompt}

\* C26: with both images present, the text slot of the Gemini and chat builders names
\* image 1 as the Reference and image 2 as the Source (the order they are sent in),
\* and does so before the user prompt.
C26_RolesBeforePrompt ==
    (payload # None /\ opts.mode = "imgedit" /\ opts.sourceImage # "" /\ opts.referenceImage # ""
       /\ providerType \in {"google_official", "yunwu", "gptgod", "openrouter"})
      => /\ C9_Transmitted = <<opts.referenceImage, opts.sourceImage>>
         /\ \E r \in C26_RoleAt(C26_Text, 1, "Reference"), q \in C26_RoleAt(C26_Text, 2, "Source") :
               \A k \in C26_PromptAt(C26_Text) : r < k /\ q < k
         /\ C26_PromptAt(C26_Text) # {}

\* The same for the two Gemini builders alone.
C26_GeminiRolesBeforePrompt ==
    (payload # None /\ opts.mode = "imgedit" /\ opts.sourceImage # "" /\ opts.referenceImage # ""
       /\ providerType \in {"google_official", "yunwu"})
      => /\ \E r \in C26_RoleAt(C26_Text, 1, "Reference"), q \in C26_RoleAt(C26_Text, 2, "Source") :
               \A k \in C26_PromptAt(C26_Text) : r < k /\ q < k
         /\ C26_PromptAt(C26_Text) # {}

\* ---- C27
\* C27: in text-to-image mode the payload carries no image (no inline part, no image
\* entry, no image field) and the graph executor uploads nothing, whatever the three
\* image fields of the request hold.
C27_Text2ImgSendsNoImage ==
    (payload # None /\ opts.mode = "text2img")
      => /\ C9_Transmitted = <<>>
         /\ http.upload = 0

\* The same for the graph executor alone, and for requests whose image fields are empty.
C27_Text2ImgWithoutImages ==
    (payload # None /\ opts.mode = "text2img"
       /\ (providerType = "comfyui"
             \/ (opts.inputImage = "" /\ opts.sourceImage = "" /\ opts.referenceImage = "")))
      => /\ C9_Transmitted = <<>>
         /\ http.upload = 0

\* ---- C28
\* Invocations that hold the busy flag: accepted and not yet through their finally block.
C28_Holders == {i \in Invocations : hpc[i] \in GuardedPcs}

\* The flag is set only while some accepted operation is still running.
C28_Inv == isGenerating => C28_Holders # {}

\* An operation that finishes (success, error or early return) leaves the flag false,
\* and a click is rejected only while another operation is still running.
C28_Step ==
    \A i \in Invocations :
        /\ (hpc[i] \in GuardedPcs /\ hpc'[i] \notin GuardedPcs)
              => (hpc'[i] \in {"completed", "failed", "returned"} /\ ~isGenerating')
        /\ (hpc[i] = "idle" /\ hpc'[i] = "rejected") => C28_Holders # {}

\* C28: every host operation that sets the busy flag clears it when it finishes, by
\* success, by an error at any step or by an early return inside the guarded section;
\* no later request is rejected because of a finished operation.
C28_BusyFlagCleared == []C28_Inv /\ [][C28_Step]_vars

\* A generation that failed while logging was on, a test import that returned early for
\* want of a token and an ensure-groups that completed, all finished, and the flag false.
C28_Witness ==
    /\ ~isGenerating
    /\ \E i, j, k \in Invocations :
          /\ hkind[i] = "generate" /\ hpc[i] = "failed" /\ hdebug[i]
          /\ hkind[j] = "testImport" /\ hpc[j] = "returned"
          /\ hkind[k] = "ensureGroups" /\ hpc[k] = "completed"

\* ---- C29
\* A generation is in flight: accepted, and its import has not yet settled.
C29_GenerationInFlight ==
    \E g \in Invocations :
        hkind[g] = "generate" /\ hpc[g] \in {"saving_prompt", "exporting", "generating", "importing"}

\* Invocation i starts one of the given handlers in this step, and is not turned away.
C29_Starts(i, kinds) ==
    /\ hpc[i] = "idle"
    /\ hkind'[i] \in kinds
    /\ hpc'[i] # "rejected"

\* C29: while a generation is in flight no test import, test export, ensure groups or
\* smart canvas ratio can start; each is rejected until the generation has completed.
C29_Step ==
    C29_GenerationInFlight
      => \A i \in Invocations :
            ~C29_Starts(i, {"testImport", "testExport", "ensureGroups", "smartCanvasRatio"})

C29_OthersRejectedDuringGeneration == [][C29_Step]_vars

\* The same for the three handlers that test the busy flag.
C29_GuardedStep ==
    C29_GenerationInFlight
      => \A i \in Invocations : ~C29_Starts(i, {"testImport", "testExport", "ensureGroups"})

C29_GuardedRejectedDuringGeneration == [][C29_GuardedStep]_vars

\* ---- C30
\* The template file on disk is the built-in graph a call has persisted.
C30_PersistedBuiltin ==
    wfFile # None /\ DOMAIN wfFile[1] = DOMAIN Z_IMAGE_TURBO_WORKFLOW

\* First call, no template file: the built-in template is used and is what gets
\* persisted and submitted.
C30_FirstStep ==
    /\ (gpc = "load_workflow" /\ wfFile = None)
          => /\ gpc' = "save_workflow"
             /\ workflow' = BuiltinT2IWorkflow(Z_IMAGE_TURBO_WORKFLOW, opts.prompt,
                                               workflow'["41"].inputs.width,
                                               workflow'["41"].inputs.height, seed)
    /\ (gpc = "save_workflow" /\ gpc' # "save_workflow")
          => /\ payload' = Some(ComfyPayload(workflow))
             /\ wfFile' \in {wfFile, Some(workflow)}

\* A later text-to-image call that loaded the persisted file submits a graph with its
\* own prompt and its own seed, whatever prompt and seed the file holds.
C30_Inv ==
    (calls >= 1 /\ opts.mode = "text2img" /\ payload # None /\ C30_PersistedBuiltin)
      => /\ payload[1].prompt["45"].inputs.text = opts.prompt
         /\ payload[1].prompt["44"].inputs.seed = seed
         /\ (wfFile[1]["45"].inputs.text # opts.prompt
               => payload[1].prompt["45"].inputs.text # wfFile[1]["45"].inputs.text)

\* C30: starting without a template file, the first text-to-image call to the graph
\* executor uses the built-in template and persists it; the second call, which loads
\* that file, submits a graph whose positive prompt is its own prompt P2 (not P1) and
\* whose sampler seed is the seed the second call generated.
C30_SecondCallOwnPromptAndSeed == []C30_Inv /\ [][C30_FirstStep]_vars

\* C30 case: the file holds the built-in graph with P1 and the first seed; the second
\* call, with P2 and another seed, has submitted its graph.
C30_Witness ==
    /\ calls = 1 /\ opts.mode = "text2img" /\ opts.prompt = P2 /\ seed = 77
    /\ C30_PersistedBuiltin
    /\ wfFile[1]["45"].inputs.text = P1 /\ wfFile[1]["44"].inputs.seed = 424242
    /\ payload # None /\ http.submit = 1

====
